---- MODULE Spec2Model ----
(***************************************************************************)
(* Model of tb_function_library: the dated-table resolver                  *)
(* (database_utils.find_table_to_query) and the AWS credential resolver    *)
(* (connection_utils.get_cluster_connection_details and                    *)
(* AwsDatabaseConnectionManager).                                          *)
(*                                                                         *)
(* Python strings are sequences of one-character strings, so that          *)
(* comparison, prefix matching, substring search and case conversion are   *)
(* computed and not assumed.                                               *)
(***************************************************************************)
EXTENDS Integers, Sequences, FiniteSets, TLC

VARIABLES
    \* ---- find_table_to_query ----
    db_tables,            \* table_name column the database returns for the schema
    base_table_name,      \* argument base_table_name
    ftq_pc,               \* position inside find_table_to_query
    df_tables_in_schema,  \* local df_tables_in_schema (table_name column)
    table_to_query,       \* local table_to_query
    ftq_return,           \* value returned to the caller
    ftq_error,            \* exception that left the function
    ftq_steps,            \* statements executed so far, in order
    \* ---- AwsDatabaseConnectionManager / get_cluster_connection_details ----
    aws_entry,            \* "manager": AwsDatabaseConnectionManager(name, driver);
                          \* "direct": get_cluster_connection_details(...) called directly
    name,                 \* AwsDatabaseConnectionManager.name
    driver,               \* AwsDatabaseConnectionManager.driver
    cluster_name,         \* argument cluster_name
    password_secret_name, \* argument password_secret_name
    read_only,            \* argument read_only
    aws_pc,               \* position inside the resolution
    rds_response,         \* what describe_db_clusters returned or raised
    rds_try_error,        \* exception raised inside the RDS try block (line 315-332)
    redshift_response,    \* what describe_clusters returned or raised
    gcd_locals,           \* locals host_address, user, db_name, port, type, password
    connection_details,   \* AwsDbConnectionDetails returned by get_cluster_connection_details
    manager,              \* attributes set on the AwsDatabaseConnectionManager
    gcd_error,            \* exception that left get_cluster_connection_details
    aws_error,            \* exception that reached the caller
    aws_calls,            \* AWS API calls made so far, in order
    \* ---- LastpassManager ----
    lp_module,            \* which copy of connection_utils: "tb_function_library" or "root"
    lp_driver,            \* LastpassManager.driver
    lp_dialect,           \* LastpassManager.dialect
    lp_pc,                \* position inside __post_init__
    lp_show,              \* number of lpass show fetches completed
    lp_fields,            \* attributes db_type, database, user, password, host, port
    lp_obj,               \* the constructed LastpassManager (with engine_str)
    lp_error,             \* exception that reached the caller
    lp_calls,             \* lpass CLI commands run so far, in order
    \* ---- psycopg2 / sqlalchemy boundary ----
    driver_call,          \* arguments handed to the database driver by create_*_connection
    \* ---- queries_as_functions ----
    q_kind,               \* which query function is called
    q_schema,             \* argument schema
    q_table,              \* argument table
    q_clause,             \* argument clause of generic_sql_query
    q_limit,              \* argument limit of generic_sql_query
    q_random,             \* argument random of generic_sql_query
    q_pc,                 \* "call", "done" or "failed"
    q_template,           \* local query_template when params_in_query_template is called
    q_params,             \* local params when params_in_query_template is called
    q_return,             \* the Composed query returned
    q_error,              \* exception that reached the caller
    \* ---- s3_utils ----
    s3_op,                \* which S3 function is called
    s3_args,              \* its arguments: filename, path, local_filename, local_path
    s3_world,             \* the bucket, the local file system and the faults of this call
    s3_pc,                \* "call", "done" or "failed"
    s3_result,            \* value returned to the caller
    s3_error,             \* exception that reached the caller
    s3_calls,             \* object-store requests and os.makedirs calls made, in order
    \* ---- database_utils.check_if_table_exists ----
    cte_listing,          \* argument df_tables_in_schema, its table_name column
    cte_table_name,       \* argument table_name
    cte_pc,               \* "call" or "done"
    cte_return,           \* value returned
    \* ---- user_input_utils ----
    ui_fn,                \* which ensure_* function is called
    ui_args,              \* its arguments: default, zero_behavior, function
    ui_fs,                \* the local file system: directories and files that exist
    ui_pc,                \* "loop", "done" or "failed"
    ui_input,             \* the local the loop assigns (input, response)
    ui_entries,           \* what the user has typed at the prompts so far, in order
    ui_return,            \* value returned
    ui_error              \* exception that reached the caller

ftq_vars == <<db_tables, base_table_name, ftq_pc, df_tables_in_schema,
              table_to_query, ftq_return, ftq_error, ftq_steps>>

aws_vars == <<aws_entry, name, driver, cluster_name, password_secret_name, read_only,
              aws_pc, rds_response, rds_try_error, redshift_response, gcd_locals, connection_details,
              manager, gcd_error, aws_error, aws_calls>>

lp_vars == <<lp_module, lp_driver, lp_dialect, lp_pc, lp_show, lp_fields, lp_obj,
             lp_error, lp_calls>>

q_vars == <<q_kind, q_schema, q_table, q_clause, q_limit, q_random, q_pc, q_template,
            q_params, q_return, q_error>>

s3_vars == <<s3_op, s3_args, s3_world, s3_pc, s3_result, s3_error, s3_calls>>

cte_vars == <<cte_listing, cte_table_name, cte_pc, cte_return>>

ui_vars == <<ui_fn, ui_args, ui_fs, ui_pc, ui_input, ui_entries, ui_return, ui_error>>

vars == <<ftq_vars, aws_vars, lp_vars, driver_call, q_vars, s3_vars, cte_vars, ui_vars>>

\* What the actions of one component leave unchanged.
ftq_others == <<aws_vars, lp_vars, driver_call, q_vars, s3_vars, cte_vars, ui_vars>>
aws_others == <<ftq_vars, lp_vars, q_vars, s3_vars, cte_vars, ui_vars>>
lp_others == <<ftq_vars, aws_vars, q_vars, s3_vars, cte_vars, ui_vars>>
q_others == <<ftq_vars, aws_vars, lp_vars, driver_call, s3_vars, cte_vars, ui_vars>>
s3_others == <<ftq_vars, aws_vars, lp_vars, driver_call, q_vars, cte_vars, ui_vars>>
cte_others == <<ftq_vars, aws_vars, lp_vars, driver_call, q_vars, s3_vars, ui_vars>>
ui_others == <<ftq_vars, aws_vars, lp_vars, driver_call, q_vars, s3_vars, cte_vars>>

-----------------------------------------------------------------------------
(* Bounds *)

MaxListing == 3

-----------------------------------------------------------------------------
(* Python str, as sequences of characters *)

\* Code points of the characters the model uses (ASCII).
Ord(c) ==
    CASE c = "-" -> 45 [] c = "." -> 46
      [] c = "0" -> 48 [] c = "1" -> 49 [] c = "2" -> 50 [] c = "3" -> 51
      [] c = "4" -> 52 [] c = "5" -> 53 [] c = "6" -> 54 [] c = "7" -> 55
      [] c = "8" -> 56 [] c = "9" -> 57
      [] c = "_" -> 95
      [] c = "b" -> 98 [] c = "k" -> 107 [] c = "t" -> 116 [] c = "x" -> 120
      [] OTHER -> 0

IsDigit(c) == c \in {"0", "1", "2", "3", "4", "5", "6", "7", "8", "9"}

Min2(a, b) == IF a < b THEN a ELSE b

\* s < t for Python str: the first differing character decides, a proper
\* prefix is smaller.
StrLess(s, t) ==
    LET n == Min2(Len(s), Len(t))
        diff == {i \in 1..n : s[i] # t[i]}
    IN  IF diff = {}
        THEN Len(s) < Len(t)
        ELSE LET i == CHOOSE j \in diff : \A k \in diff : j <= k
             IN  Ord(s[i]) < Ord(t[i])

Range(f) == {f[i] : i \in DOMAIN f}

IsPrefix(p, s) == Len(p) <= Len(s) /\ \A i \in 1..Len(p) : s[i] = p[i]

-----------------------------------------------------------------------------
(* Python values and exceptions *)

NoneVal == [kind |-> "none", val |-> <<>>]
FalseVal == [kind |-> "bool", val |-> <<>>]
NanVal == [kind |-> "nan", val |-> <<>>]
TrueVal == [kind |-> "true", val |-> <<>>]
StrVal(s) == [kind |-> "str", val |-> s]

NoError == [type |-> "none", msg |-> "none"]
SchemaNotFoundError ==
    [type |-> "ValueError", msg |-> "Could not find the schema"]
TableNotFoundError ==
    [type |-> "ValueError", msg |-> "Could not find a table matching the pattern"]
MathNameError == [type |-> "NameError", msg |-> "name 'math' is not defined"]

\* A local variable that has, or has not yet, been assigned.
Unbound == [bound |-> FALSE, v |-> <<>>]
Bound(x) == [bound |-> TRUE, v |-> x]

NoResponse == [status |-> "none"]
NoLocals == [host_address |-> Unbound, user |-> Unbound, db_name |-> Unbound,
             port |-> Unbound, type |-> Unbound, password |-> Unbound]
NoObject == [built |-> FALSE]

\* The component a specification does not exercise stays in these states.
FtqIdle ==
    /\ db_tables = <<>>
    /\ base_table_name = <<>>
    /\ ftq_pc = "idle"
    /\ df_tables_in_schema = <<>>
    /\ table_to_query = NoneVal
    /\ ftq_return = NoneVal
    /\ ftq_error = NoError
    /\ ftq_steps = <<>>

AwsIdle ==
    /\ aws_entry = "none"
    /\ name = <<>>
    /\ driver = NoneVal
    /\ cluster_name = ""
    /\ password_secret_name = ""
    /\ read_only = FALSE
    /\ aws_pc = "idle"
    /\ rds_response = NoResponse
    /\ rds_try_error = NoError
    /\ redshift_response = NoResponse
    /\ gcd_locals = NoLocals
    /\ connection_details = NoObject
    /\ manager = NoObject
    /\ gcd_error = NoError
    /\ aws_error = NoError
    /\ aws_calls = <<>>

NoFields == [db_type |-> Unbound, database |-> Unbound, user |-> Unbound,
             password |-> Unbound, host |-> Unbound, port |-> Unbound]

LpIdle ==
    /\ lp_module = "none"
    /\ lp_driver = NoneVal
    /\ lp_dialect = ""
    /\ lp_pc = "idle"
    /\ lp_show = 0
    /\ lp_fields = NoFields
    /\ lp_obj = NoObject
    /\ lp_error = NoError
    /\ lp_calls = <<>>

NoDriverCall == [made |-> FALSE]
QIdle ==
    /\ q_kind = "none" /\ q_schema = "" /\ q_table = "" /\ q_clause = NoneVal
    /\ q_limit = FalseVal /\ q_random = FALSE /\ q_pc = "idle"
    /\ q_template = <<>> /\ q_params = <<>> /\ q_return = <<>> /\ q_error = NoError
NoArgs == [filename |-> NoneVal, path |-> NoneVal, local_filename |-> NoneVal,
           local_path |-> NoneVal]
NoWorld == [bucket_exists |-> FALSE, keys |-> {}, fault |-> "none",
            local_dir_exists |-> FALSE, local_file_exists |-> FALSE,
            makedirs_fails |-> FALSE, upload_of_false |-> "rejected"]
S3Idle ==
    /\ s3_op = "none" /\ s3_args = NoArgs /\ s3_world = NoWorld /\ s3_pc = "idle"
    /\ s3_result = NoneVal /\ s3_error = NoError /\ s3_calls = <<>>
CteIdle ==
    /\ cte_listing = <<>> /\ cte_table_name = <<>> /\ cte_pc = "idle"
    /\ cte_return = NoneVal
NoUiArgs == [default |-> NoneVal, zero_behavior |-> NoneVal, function |-> NoneVal]
NoFiles == [dirs |-> {}, files |-> {}]
UiIdle ==
    /\ ui_fn = "none" /\ ui_args = NoUiArgs /\ ui_fs = NoFiles /\ ui_pc = "idle"
    /\ ui_input = Unbound /\ ui_entries = <<>> /\ ui_return = NoneVal
    /\ ui_error = NoError

-----------------------------------------------------------------------------
(* database_utils.find_table_to_query *)

\* Number of digits the filter pattern asks for: "\d{8}".
DateDigits == 8

\* The names bound in database_utils' module namespace do not include math.
MathIsBound == FALSE

\* One element of the compiled filter pattern.
Lit(c) == [kind |-> "lit", ch |-> c]
AnyChar == [kind |-> "any", ch |-> "."]
DigitClass == [kind |-> "digit", ch |-> "d"]

\* "^" + base_table_name + "_" + "\d{8}" as the regex engine reads it: the
\* characters of base_table_name are pattern text, so "." is the wildcard.
FilterPattern(base) ==
    [i \in 1..(Len(base) + 1 + DateDigits) |->
        IF i <= Len(base)
        THEN (IF base[i] = "." THEN AnyChar ELSE Lit(base[i]))
        ELSE IF i = Len(base) + 1 THEN Lit("_") ELSE DigitClass]

TokMatches(tok, c) ==
    CASE tok.kind = "lit" -> c = tok.ch
      [] tok.kind = "any" -> TRUE
      [] tok.kind = "digit" -> IsDigit(c)

\* Series.str.contains(pattern, regex=True) is re.search: with the leading
\* "^" the pattern has to match at position 0; nothing anchors its end.
StrContains(pat, tname) ==
    /\ Len(tname) >= Len(pat)
    /\ \A i \in 1..Len(pat) : TokMatches(pat[i], tname[i])

\* df[df["table_name"].str.contains(filter_pattern, regex=True)]
FilterDated(df, base) ==
    SelectSeq(df, LAMBDA n : StrContains(FilterPattern(base), n))

RECURSIVE SeqMax(_)
SeqMax(col) ==
    IF Len(col) = 1
    THEN col[1]
    ELSE LET m == SeqMax(Tail(col))
         IN  IF StrLess(col[1], m) THEN m ELSE col[1]

SeqFirst(col) == col[1]

\* DataFrame.max().values[0]: the maximum of the table_name column, NaN for
\* an empty frame.
ColumnMax_First(col) == IF col = <<>> THEN NanVal ELSE StrVal(SeqFirst(col))
ColumnMax(col) == IF col = <<>> THEN NanVal ELSE StrVal(SeqMax(col))

\* df_tables_in_schema.empty
DfEmpty_Never(df) == FALSE
DfEmpty(df) == df = <<>>

\* (df_tables_in_schema["table_name"] == base_table_name).any()
HasExactMatch_Never(df, base) == FALSE
HasExactMatch(df, base) == \E i \in 1..Len(df) : df[i] = base

FtqFetchListing ==
    /\ ftq_pc = "start"
    /\ UNCHANGED ftq_others
    /\ df_tables_in_schema' = db_tables
    /\ ftq_steps' = Append(ftq_steps, "fetch")
    /\ ftq_pc' = "check_empty"
    /\ UNCHANGED <<db_tables, base_table_name, table_to_query, ftq_return, ftq_error>>

FtqCheckEmpty ==
    /\ ftq_pc = "check_empty"
    /\ UNCHANGED ftq_others
    /\ ftq_steps' = Append(ftq_steps, "check_empty")
    /\ IF DfEmpty(df_tables_in_schema)
       THEN /\ ftq_error' = SchemaNotFoundError
            /\ ftq_pc' = "failed"
            /\ UNCHANGED table_to_query
       ELSE /\ table_to_query' = FalseVal
            /\ ftq_pc' = "exact"
            /\ UNCHANGED ftq_error
    /\ UNCHANGED <<db_tables, base_table_name, df_tables_in_schema, ftq_return>>

FtqExactMatch ==
    /\ ftq_pc = "exact"
    /\ UNCHANGED ftq_others
    /\ ftq_steps' = Append(ftq_steps, "exact")
    /\ IF HasExactMatch(df_tables_in_schema, base_table_name)
       THEN /\ table_to_query' = StrVal(base_table_name)
            /\ ftq_return' = StrVal(base_table_name)
            /\ ftq_pc' = "done"
       ELSE /\ ftq_pc' = "filter"
            /\ UNCHANGED <<table_to_query, ftq_return>>
    /\ UNCHANGED <<db_tables, base_table_name, df_tables_in_schema, ftq_error>>

FtqFilterMax ==
    /\ ftq_pc = "filter"
    /\ UNCHANGED ftq_others
    /\ ftq_steps' = Append(ftq_steps, "filter")
    /\ table_to_query' = ColumnMax(FilterDated(df_tables_in_schema, base_table_name))
    /\ ftq_pc' = "nan_check"
    /\ UNCHANGED <<db_tables, base_table_name, df_tables_in_schema, ftq_return, ftq_error>>

\* if type(table_to_query) != str and math.isnan(table_to_query): raise ...
FtqNanCheck ==
    /\ ftq_pc = "nan_check"
    /\ UNCHANGED ftq_others
    /\ ftq_steps' = Append(ftq_steps, "nan_check")
    /\ IF table_to_query.kind # "str"
       THEN IF ~MathIsBound
            THEN /\ ftq_error' = MathNameError
                 /\ ftq_pc' = "failed"
                 /\ UNCHANGED ftq_return
            ELSE IF table_to_query.kind = "nan"
                 THEN /\ ftq_error' = TableNotFoundError
                      /\ ftq_pc' = "failed"
                      /\ UNCHANGED ftq_return
                 ELSE /\ ftq_return' = table_to_query
                      /\ ftq_pc' = "done"
                      /\ UNCHANGED ftq_error
       ELSE /\ ftq_return' = table_to_query
            /\ ftq_pc' = "done"
            /\ UNCHANGED ftq_error
    /\ UNCHANGED <<db_tables, base_table_name, df_tables_in_schema, table_to_query>>

-----------------------------------------------------------------------------
(* Inputs of find_table_to_query *)

D20221231 == <<"2", "0", "2", "2", "1", "2", "3", "1">>
D20230101 == <<"2", "0", "2", "3", "0", "1", "0", "1">>
D20230215 == <<"2", "0", "2", "3", "0", "2", "1", "5">>

Dated(base, d) == base \o <<"_">> \o d

BaseNames == {<<"t">>, <<"t", "x">>, <<"t", ".">>}

TableNames ==
    { <<"t">>, <<"t", "x">>,
      Dated(<<"t">>, D20221231), Dated(<<"t">>, D20230101), Dated(<<"t">>, D20230215),
      Dated(<<"t">>, D20230215) \o <<"_", "b">>,
      Dated(<<"t">>, D20230215) \o <<"0">>,
      <<"t", "_", "2", "0", "2", "3", "0", "2", "1">>,
      Dated(<<"t", "x">>, D20230101) }

Listings == UNION {[1..n -> TableNames] : n \in 0..MaxListing}

FtqInit ==
    /\ db_tables \in Listings
    /\ base_table_name \in BaseNames
    /\ ftq_pc = "start"
    /\ df_tables_in_schema = <<>>
    /\ table_to_query = NoneVal
    /\ ftq_return = NoneVal
    /\ ftq_error = NoError
    /\ ftq_steps = <<>>
    /\ AwsIdle
    /\ LpIdle
    /\ driver_call = NoDriverCall
    /\ QIdle
    /\ S3Idle
    /\ CteIdle
    /\ UiIdle

FtqNext ==
    \/ FtqFetchListing
    \/ FtqCheckEmpty
    \/ FtqExactMatch
    \/ FtqFilterMax
    \/ FtqNanCheck

SpecTable == FtqInit /\ [][FtqNext]_vars

-----------------------------------------------------------------------------
(* Claims about find_table_to_query *)

FtqTerminated == ftq_pc \in {"done", "failed"}

\* tname is base, then "_", then exactly DateDigits digits and nothing else.
IsDatedVariant(tname, base) ==
    /\ Len(tname) = Len(base) + 1 + DateDigits
    /\ IsPrefix(base \o <<"_">>, tname)
    /\ \A i \in (Len(base) + 2)..Len(tname) : IsDigit(tname[i])

\* The listed names the filter of the dated path selects.
Candidates == {n \in Range(db_tables) : StrContains(FilterPattern(base_table_name), n)}

HasMetaChar(base) == \E i \in 1..Len(base) : base[i] = "."

\* C1: whenever the non-empty listing contains base_table_name itself, the
\* call returns base_table_name, whatever dated variants are listed with it.
C1_ExactMatchWins ==
    (FtqTerminated /\ base_table_name \in Range(db_tables))
        => (ftq_pc = "done" /\ ftq_return = StrVal(base_table_name))

\* C1 witness: a call returned the exact match although a larger dated
\* variant of it was listed.
C1_Witness ==
    /\ ftq_pc = "done"
    /\ ftq_return = StrVal(base_table_name)
    /\ \E n \in Range(db_tables) :
          IsDatedVariant(n, base_table_name) /\ StrLess(base_table_name, n)

C3_TableNotFoundFailure ==
    (FtqTerminated /\ db_tables # <<>> /\ base_table_name \notin Range(db_tables)
        /\ Candidates = {})
        => (ftq_pc = "failed" /\ ftq_error = TableNotFoundError /\ ftq_return = NoneVal)

\* C4 (as claimed): a name returned through the dated path is base_table_name,
\* "_", exactly DateDigits digits and nothing after them (base names without
\* pattern metacharacters).
C4_ExactlyEightDigits ==
    (ftq_pc = "done" /\ ~HasMetaChar(base_table_name)
        /\ \E i \in 1..Len(ftq_steps) : ftq_steps[i] = "filter")
        => (ftq_return.kind = "str" /\ IsDatedVariant(ftq_return.val, base_table_name))

\* C5: with an empty listing the call fails with the schema-not-found
\* ValueError, and neither the exact-match test nor the dated filter has run.
C5_EmptyListingFails ==
    (FtqTerminated /\ db_tables = <<>>)
        => /\ ftq_pc = "failed"
           /\ ftq_error = SchemaNotFoundError
           /\ ftq_return = NoneVal
           /\ \A i \in 1..Len(ftq_steps) : ftq_steps[i] \notin {"exact", "filter", "nan_check"}

\* C5 witness: a call on an empty listing has failed.
C5_Witness == ftq_pc = "failed" /\ db_tables = <<>> /\ ftq_steps = <<"fetch", "check_empty">>

\* C6 (as claimed): a failed call ends in one of the two lookup failures, the
\* schema-not-found failure for an empty listing and the table-not-found
\* failure otherwise, and the two have different types.
C6_DistinctFailureTypes ==
    ftq_pc = "failed"
        => /\ ftq_error = (IF db_tables = <<>> THEN SchemaNotFoundError ELSE TableNotFoundError)
           /\ SchemaNotFoundError.type # TableNotFoundError.type

-----------------------------------------------------------------------------
(* str.lower, str.upper, the in operator on str *)

Uppers == <<"A", "B", "C", "D", "E", "F", "G", "H", "I", "J", "K", "L", "M",
            "N", "O", "P", "Q", "R", "S", "T", "U", "V", "W", "X", "Y", "Z">>
Lowers == <<"a", "b", "c", "d", "e", "f", "g", "h", "i", "j", "k", "l", "m",
            "n", "o", "p", "q", "r", "s", "t", "u", "v", "w", "x", "y", "z">>

LowerChar(c) ==
    IF \E i \in 1..Len(Uppers) : Uppers[i] = c
    THEN Lowers[CHOOSE i \in 1..Len(Uppers) : Uppers[i] = c]
    ELSE c
UpperChar(c) ==
    IF \E i \in 1..Len(Lowers) : Lowers[i] = c
    THEN Uppers[CHOOSE i \in 1..Len(Lowers) : Lowers[i] = c]
    ELSE c

StrLower(s) == [i \in 1..Len(s) |-> LowerChar(s[i])]
StrUpper(s) == [i \in 1..Len(s) |-> UpperChar(s[i])]

\* sub in s
StrIn(sub, s) ==
    \E k \in 0..(Len(s) - Len(sub)) : \A i \in 1..Len(sub) : s[k + i] = sub[i]

-----------------------------------------------------------------------------
(* aws_db_details.CONFIGURED_CLUSTER_LIST *)

MSP_STAGING ==
    [cluster_identifer |-> "msp-staging-cluster",
     password_secret_name |-> "msp/staging-db-password"]
MSP_FINAL ==
    [cluster_identifer |-> "msp-final-cluster",
     password_secret_name |-> "msp/final-db-password"]
MEDICARE_EVENTS ==
    [cluster_identifer |-> "medicare-events-cluster",
     password_secret_name |-> "medicare-events/redshift-password"]

KeyMspStaging == <<"M", "S", "P", "_", "S", "T", "A", "G", "I", "N", "G">>
KeyMspFinal == <<"M", "S", "P", "_", "F", "I", "N", "A", "L">>
KeyMedicareEvents == <<"M", "E", "D", "I", "C", "A", "R", "E", "_", "E", "V", "E", "N", "T", "S">>

ClusterKeys == {KeyMspStaging, KeyMspFinal, KeyMedicareEvents}

CONFIGURED_CLUSTER_LIST ==
    [k \in ClusterKeys |->
        CASE k = KeyMspStaging -> MSP_STAGING
          [] k = KeyMspFinal -> MSP_FINAL
          [] k = KeyMedicareEvents -> MEDICARE_EVENTS]

-----------------------------------------------------------------------------
(* The AWS services, as the resolver sees them *)

ClientError(code) == [type |-> "ClientError", msg |-> code]
EndpointConnectionError == [type |-> "EndpointConnectionError", msg |-> "unreachable"]
KeyError(key) == [type |-> "KeyError", msg |-> key]
EngineTypeError == [type |-> "TypeError", msg |-> "Engine Type Unexpected"]
UnboundLocalError(var) == [type |-> "UnboundLocalError", msg |-> var]
InvalidNameError == [type |-> "ValueError", msg |-> "Invalid connection name"]
BareValueError == [type |-> "ValueError", msg |-> ""]

Raised(exc) == [status |-> "raised", exc |-> exc]
Returned(body) == [status |-> "ok", body |-> body]

EnginePostgres == <<"a", "u", "r", "o", "r", "a", "-", "p", "o", "s", "t", "g", "r", "e", "s", "q", "l">>
EngineMysql == <<"m", "y", "s", "q", "l">>
EnginePlainPostgres == <<"p", "o", "s", "t", "g", "r", "e", "s">>
Engines == {EnginePostgres, EngineMysql, EnginePlainPostgres}

Usernames == {<<"A", "d", "m">>, <<"s", "v", "c">>}

\* rds.describe_db_clusters(DBClusterIdentifier=...): a cluster description
\* (DatabaseName is absent for a cluster created without a database), the
\* cluster reported as not found, another API error, or no connection.
RdsOutcomes ==
    {Returned([Endpoint |-> "writer.rds", ReaderEndpoint |-> "reader.rds",
               MasterUsername |-> u, HasDatabaseName |-> h, DatabaseName |-> "eventsdb",
               Port |-> 5432, Engine |-> e]) :
        u \in Usernames, h \in BOOLEAN, e \in Engines}
    \cup {Raised(ClientError("DBClusterNotFoundFault")),
          Raised(ClientError("AccessDenied")),
          Raised(EndpointConnectionError)}

\* redshift.describe_clusters(ClusterIdentifier=...)
RedshiftOutcomes ==
    {Returned([Address |-> "redshift.host", MasterUsername |-> u,
               HasDBName |-> h, DBName |-> "dev", Port |-> 5439]) :
        u \in Usernames, h \in BOOLEAN}
    \cup {Raised(ClientError("ClusterNotFound")),
          Raised(ClientError("DBInstanceNotFound")),
          Raised(ClientError("AccessDenied")),
          Raised(EndpointConnectionError)}

\* secretsmanager.get_secret_value(SecretId=secret_name)
SecretStore(secret_name) == <<"SecretString of", secret_name>>
SecretOutcomes(secret_name) ==
    {Returned(SecretStore(secret_name)), Raised(ClientError("ResourceNotFoundException"))}

RdsNotFound(resp) ==
    resp.status = "raised" /\ resp.exc = ClientError("DBClusterNotFoundFault")

-----------------------------------------------------------------------------
(* connection_utils.AwsDatabaseConnectionManager.__post_init__ and           *)
(* connection_utils.get_cluster_connection_details                           *)

\* connection_name not in connection_options_lower is False
ConnectionNameValid_Exact(n) == n \in DOMAIN CONFIGURED_CLUSTER_LIST
ConnectionNameValid(n) ==
    StrLower(n) \in {StrLower(k) : k \in DOMAIN CONFIGURED_CLUSTER_LIST}

\* "postgresql" in engine
EngineIsPostgresql(engine) == StrIn(<<"p", "o", "s", "t", "g", "r", "e", "s", "q", "l">>, engine)

\* response["DBClusters"][0]["ReaderEndpoint"] if read_only else [...]["Endpoint"]
RdsHostAddress_Reader(r, ro) == r.ReaderEndpoint
RdsHostAddress(r, ro) == IF ro THEN r.ReaderEndpoint ELSE r.Endpoint

\* The except: of line 333 names no exception class.
RdsExceptCatches(exc) == TRUE

\* An exception leaves get_cluster_connection_details; inside __post_init__
\* the except: of line 198 replaces it by a ValueError without arguments.
GcdRaise(exc) ==
    /\ gcd_error' = exc
    /\ aws_error' = IF aws_entry = "manager" THEN BareValueError ELSE exc
    /\ aws_pc' = "failed"

\* An exception inside the RDS try block.
RdsTryRaise(exc) ==
    /\ rds_try_error' = exc
    /\ IF RdsExceptCatches(exc)
       THEN aws_pc' = "redshift_describe" /\ UNCHANGED <<gcd_error, aws_error>>
       ELSE GcdRaise(exc)

AwsPostInit ==
    /\ aws_pc = "post_init"
    /\ UNCHANGED <<aws_others, driver_call>>
    /\ IF ~ConnectionNameValid(name)
       THEN /\ aws_error' = InvalidNameError
            /\ aws_pc' = "failed"
            /\ UNCHANGED <<cluster_name, password_secret_name, gcd_error>>
       ELSE IF StrUpper(name) \notin DOMAIN CONFIGURED_CLUSTER_LIST
            THEN /\ aws_error' = BareValueError
                 /\ aws_pc' = "failed"
                 /\ UNCHANGED <<cluster_name, password_secret_name, gcd_error>>
            ELSE LET cluster_secrets_map == CONFIGURED_CLUSTER_LIST[StrUpper(name)]
                 IN  /\ cluster_name' = cluster_secrets_map.cluster_identifer
                     /\ password_secret_name' = cluster_secrets_map.password_secret_name
                     /\ aws_pc' = "rds_describe"
                     /\ UNCHANGED <<aws_error, gcd_error>>
    /\ UNCHANGED <<aws_entry, name, driver, read_only, rds_response, rds_try_error,
                   redshift_response, gcd_locals, connection_details, manager, aws_calls>>

GcdRdsDescribe ==
    /\ aws_pc = "rds_describe"
    /\ UNCHANGED <<aws_others, driver_call>>
    /\ \E out \in RdsOutcomes :
          /\ rds_response' = out
          /\ aws_calls' = Append(aws_calls, "rds.describe_db_clusters")
          /\ IF out.status = "ok"
             THEN /\ aws_pc' = "rds_extract"
                  /\ UNCHANGED <<rds_try_error, gcd_error, aws_error>>
             ELSE RdsTryRaise(out.exc)
    /\ UNCHANGED <<aws_entry, name, driver, cluster_name, password_secret_name, read_only,
                   redshift_response, gcd_locals, connection_details, manager>>

GcdRdsExtract ==
    /\ aws_pc = "rds_extract"
    /\ UNCHANGED <<aws_others, driver_call>>
    /\ LET r == rds_response.body
           l1 == [gcd_locals EXCEPT !.host_address = Bound(RdsHostAddress(r, read_only)),
                                    !.user = Bound(r.MasterUsername)]
           l2 == [l1 EXCEPT !.db_name = Bound(r.DatabaseName), !.port = Bound(r.Port)]
       IN  IF ~r.HasDatabaseName
           THEN /\ gcd_locals' = l1
                /\ RdsTryRaise(KeyError("DatabaseName"))
           ELSE IF EngineIsPostgresql(r.Engine)
                THEN /\ gcd_locals' = [l2 EXCEPT !.type = Bound("postgresql")]
                     /\ aws_pc' = "get_secret"
                     /\ UNCHANGED <<rds_try_error, gcd_error, aws_error>>
                ELSE /\ gcd_locals' = l2
                     /\ RdsTryRaise(EngineTypeError)
    /\ UNCHANGED <<aws_entry, name, driver, cluster_name, password_secret_name, read_only,
                   rds_response, redshift_response, connection_details, manager, aws_calls>>

GcdRedshiftDescribe ==
    /\ aws_pc = "redshift_describe"
    /\ UNCHANGED <<aws_others, driver_call>>
    /\ \E out \in RedshiftOutcomes :
          /\ redshift_response' = out
          /\ aws_calls' = Append(aws_calls, "redshift.describe_clusters")
          /\ IF out.status = "ok"
             THEN /\ aws_pc' = "redshift_extract"
                  /\ UNCHANGED <<gcd_error, aws_error>>
             ELSE IF out.exc.type = "ClientError" /\ out.exc.msg = "DBInstanceNotFound"
                  THEN /\ aws_pc' = "get_secret"
                       /\ UNCHANGED <<gcd_error, aws_error>>
                  ELSE GcdRaise(out.exc)
    /\ UNCHANGED <<aws_entry, name, driver, cluster_name, password_secret_name, read_only,
                   rds_response, rds_try_error, gcd_locals, connection_details, manager>>

GcdRedshiftExtract ==
    /\ aws_pc = "redshift_extract"
    /\ UNCHANGED <<aws_others, driver_call>>
    /\ LET r == redshift_response.body
           l1 == [gcd_locals EXCEPT !.host_address = Bound(r.Address),
                                    !.user = Bound(r.MasterUsername)]
       IN  IF ~r.HasDBName
           THEN /\ gcd_locals' = l1
                /\ GcdRaise(KeyError("DBName"))
           ELSE /\ gcd_locals' = [l1 EXCEPT !.db_name = Bound(r.DBName),
                                            !.port = Bound(r.Port),
                                            !.type = Bound("redshift")]
                /\ aws_pc' = "get_secret"
                /\ UNCHANGED <<gcd_error, aws_error>>
    /\ UNCHANGED <<aws_entry, name, driver, cluster_name, password_secret_name, read_only,
                   rds_response, rds_try_error, redshift_response, connection_details,
                   manager, aws_calls>>

\* password = get_secret_from_secrets_manager(password_secret_name)
GcdGetSecret ==
    /\ aws_pc = "get_secret"
    /\ UNCHANGED <<aws_others, driver_call>>
    /\ \E out \in SecretOutcomes(password_secret_name) :
          /\ aws_calls' = Append(aws_calls, "secretsmanager.get_secret_value")
          /\ IF out.status = "ok"
             THEN /\ gcd_locals' = [gcd_locals EXCEPT !.password = Bound(out.body)]
                  /\ aws_pc' = "return"
                  /\ UNCHANGED <<gcd_error, aws_error>>
             ELSE /\ GcdRaise(out.exc)
                  /\ UNCHANGED gcd_locals
    /\ UNCHANGED <<aws_entry, name, driver, cluster_name, password_secret_name, read_only,
                   rds_response, rds_try_error, redshift_response, connection_details,
                   manager>>

\* AwsDbConnectionDetails.__init__(host, password, db, user, cluster_type, port)
AwsDbConnectionDetails_UserFirst(host, password, db, user, cluster_type, port) ==
    [built |-> TRUE, host |-> host, password |-> user, db |-> db, user |-> password,
     type |-> cluster_type, port |-> port]
AwsDbConnectionDetails(host, password, db, user, cluster_type, port) ==
    [built |-> TRUE, host |-> host, password |-> password, db |-> db, user |-> user,
     type |-> cluster_type, port |-> port]

\* return AwsDbConnectionDetails(host_address, password, db_name, user, type, port)
GcdReturn ==
    /\ aws_pc = "return"
    /\ UNCHANGED <<aws_others, driver_call>>
    /\ LET l == gcd_locals
       IN  IF ~l.host_address.bound THEN GcdRaise(UnboundLocalError("host_address"))
                                         /\ UNCHANGED connection_details
           ELSE IF ~l.db_name.bound THEN GcdRaise(UnboundLocalError("db_name"))
                                         /\ UNCHANGED connection_details
           ELSE IF ~l.user.bound THEN GcdRaise(UnboundLocalError("user"))
                                      /\ UNCHANGED connection_details
           ELSE IF ~l.type.bound THEN GcdRaise(UnboundLocalError("type"))
                                      /\ UNCHANGED connection_details
           ELSE IF ~l.port.bound THEN GcdRaise(UnboundLocalError("port"))
                                      /\ UNCHANGED connection_details
           ELSE /\ connection_details' =
                      AwsDbConnectionDetails(l.host_address.v, l.password.v, l.db_name.v,
                                             l.user.v, l.type.v, l.port.v)
                /\ aws_pc' = IF aws_entry = "manager" THEN "assign" ELSE "done"
                /\ UNCHANGED <<gcd_error, aws_error>>
    /\ UNCHANGED <<aws_entry, name, driver, cluster_name, password_secret_name, read_only,
                   rds_response, rds_try_error, redshift_response, gcd_locals, manager,
                   aws_calls>>

\* One piece of a formatted string: fixed text, or the str() of a value.
Txt(t) == [part |-> "text", v |-> t]
Fld(part, x) == [part |-> part, v |-> x]

\* f"{dialect}+{driver}://{user}:{password}@{host}:{port}/{database}", or the
\* same without "+{driver}", as the sequence of its pieces.
EngineStr_AlwaysDriver(dialect, drv, user, password, host, port, database) ==
    <<Fld("dialect", dialect), Txt("+"), Fld("driver", drv.val), Txt("://"),
      Fld("user", user), Txt(":"), Fld("password", password), Txt("@"),
      Fld("host", host), Txt(":"), Fld("port", port), Txt("/"),
      Fld("database", database)>>
EngineStr(dialect, drv, user, password, host, port, database) ==
    IF drv.kind # "none"
    THEN <<Fld("dialect", dialect), Txt("+"), Fld("driver", drv.val), Txt("://"),
           Fld("user", user), Txt(":"), Fld("password", password), Txt("@"),
           Fld("host", host), Txt(":"), Fld("port", port), Txt("/"),
           Fld("database", database)>>
    ELSE <<Fld("dialect", dialect), Txt("://"),
           Fld("user", user), Txt(":"), Fld("password", password), Txt("@"),
           Fld("host", host), Txt(":"), Fld("port", port), Txt("/"),
           Fld("database", database)>>

AwsPostInitAssign ==
    /\ aws_pc = "assign"
    /\ UNCHANGED <<aws_others, driver_call>>
    /\ LET d == connection_details
       IN  manager' = [built |-> TRUE, host |-> d.host, password |-> d.password,
                       port |-> d.port, database |-> d.db, user |-> d.user,
                       dialect |-> d.type,
                       engine_str |-> EngineStr(d.type, driver, d.user, d.password, d.host,
                                                d.port, d.db)]
    /\ aws_pc' = "done"
    /\ UNCHANGED <<aws_entry, name, driver, cluster_name, password_secret_name, read_only,
                   rds_response, rds_try_error, redshift_response, gcd_locals,
                   connection_details, gcd_error, aws_error, aws_calls>>

-----------------------------------------------------------------------------
(* create_psycopg2_connection and create_sqlalchemy_connection *)

ConnectionStyles == {"psycopg2", "sqlalchemy"}

\* sqlalchemy.create_engine(url): the username is the text between "://" and
\* the ":" that follows it, taken as written.
UrlUsername(url) ==
    LET i == CHOOSE k \in 1..Len(url) : url[k] = Txt("://")
    IN  url[i + 1].v

\* psycopg2.connect(host=..., database=..., port=int(port), user=user.lower(),
\* password=...)
Psycopg2Call(host, database, port, user, password) ==
    [made |-> TRUE, style |-> "psycopg2", host |-> host, database |-> database,
     port |-> port, user |-> StrLower(user), password |-> password]

\* sqlalchemy.create_engine(self.engine_str).connect()
SqlalchemyCall(engine_str) ==
    [made |-> TRUE, style |-> "sqlalchemy", url |-> engine_str,
     user |-> UrlUsername(engine_str)]

AwsConnect ==
    /\ aws_pc = "done"
    /\ aws_entry = "manager"
    /\ UNCHANGED aws_others
    /\ \E style \in ConnectionStyles :
          driver_call' =
              IF style = "psycopg2"
              THEN Psycopg2Call(manager.host, manager.database, manager.port,
                                manager.user, manager.password)
              ELSE SqlalchemyCall(manager.engine_str)
    /\ aws_pc' = "connected"
    /\ UNCHANGED <<aws_entry, name, driver, cluster_name, password_secret_name, read_only,
                   rds_response, rds_try_error, redshift_response, gcd_locals,
                   connection_details, manager, gcd_error, aws_error, aws_calls>>

-----------------------------------------------------------------------------
(* Inputs of the AWS resolution *)

ManagerNames ==
    { <<"m", "e", "d", "i", "c", "a", "r", "e", "-", "e", "v", "e", "n", "t", "s">>,
      <<"m", "e", "d", "i", "c", "a", "r", "e", "_", "e", "v", "e", "n", "t", "s">>,
      <<"M", "E", "D", "I", "C", "A", "R", "E", "_", "E", "V", "E", "N", "T", "S">>,
      <<"M", "s", "p", "_", "F", "i", "n", "a", "l">>,
      <<"e", "v", "e", "n", "t", "s">> }

Drivers == {[kind |-> "str", val |-> "psycopg2"], [kind |-> "str", val |-> ""], NoneVal}

AwsInit ==
    /\ FtqIdle
    /\ LpIdle
    /\ driver_call = NoDriverCall
    /\ QIdle
    /\ S3Idle
    /\ CteIdle
    /\ UiIdle
    /\ aws_entry \in {"manager", "direct"}
    /\ IF aws_entry = "manager"
       THEN /\ name \in ManagerNames
            /\ driver \in Drivers
            /\ cluster_name = ""
            /\ password_secret_name = ""
            /\ read_only = FALSE
            /\ aws_pc = "post_init"
       ELSE /\ name = <<>>
            /\ driver = NoneVal
            /\ \E m \in {MEDICARE_EVENTS, MSP_FINAL} :
                  /\ cluster_name = m.cluster_identifer
                  /\ password_secret_name = m.password_secret_name
            /\ read_only \in BOOLEAN
            /\ aws_pc = "rds_describe"
    /\ rds_response = NoResponse
    /\ rds_try_error = NoError
    /\ redshift_response = NoResponse
    /\ gcd_locals = NoLocals
    /\ connection_details = NoObject
    /\ manager = NoObject
    /\ gcd_error = NoError
    /\ aws_error = NoError
    /\ aws_calls = <<>>

AwsNext ==
    \/ AwsPostInit
    \/ GcdRdsDescribe
    \/ GcdRdsExtract
    \/ GcdRedshiftDescribe
    \/ GcdRedshiftExtract
    \/ GcdGetSecret
    \/ GcdReturn
    \/ AwsPostInitAssign
    \/ AwsConnect

SpecAws == AwsInit /\ [][AwsNext]_vars

-----------------------------------------------------------------------------
(* Claims about the AWS resolution *)

AwsTerminated == aws_pc \in {"done", "connected", "failed"}

Called(api) == \E i \in 1..Len(aws_calls) : aws_calls[i] = api
TimesCalled(api) == Cardinality({i \in 1..Len(aws_calls) : aws_calls[i] = api})

RdsReturned == rds_response.status = "ok"

\* The secret lookup was made and raised.
SecretLookupFailed ==
    Called("secretsmanager.get_secret_value") /\ AwsTerminated /\ ~gcd_locals.password.bound

\* C7 (as claimed): the RDS describe call comes before any Redshift describe
\* call, and once a describe call has returned a response no further describe
\* call is made: Redshift is never called after RDS returned.
C7_StopAtFirstSuccessfulDescribe ==
    /\ \A i \in 1..Len(aws_calls) :
          aws_calls[i] = "redshift.describe_clusters"
              => \E j \in 1..(i - 1) : aws_calls[j] = "rds.describe_db_clusters"
    /\ TimesCalled("rds.describe_db_clusters") <= 1
    /\ TimesCalled("redshift.describe_clusters") <= 1
    /\ RdsReturned => ~Called("redshift.describe_clusters")

\* C8 (as claimed): when the RDS describe call returns a complete description
\* whose Engine does not contain "postgresql", the resolution fails with the
\* engine-type error at once: no Redshift describe call, no secret lookup, no
\* descriptor.
C8_UnexpectedEngineIsFatal ==
    (RdsReturned /\ rds_response.body.HasDatabaseName
        /\ ~StrIn(<<"p", "o", "s", "t", "g", "r", "e", "s", "q", "l">>, rds_response.body.Engine))
        => /\ ~Called("redshift.describe_clusters")
           /\ ~Called("secretsmanager.get_secret_value")
           /\ ~connection_details.built
           /\ aws_pc = "failed" => gcd_error = EngineTypeError

\* C9 (as claimed): the Redshift describe call is made if and only if the RDS
\* describe call reported the cluster as not found.
C9_RedshiftOnlyAfterNotFound ==
    /\ Called("redshift.describe_clusters") => RdsNotFound(rds_response)
    /\ (RdsNotFound(rds_response) /\ AwsTerminated) => Called("redshift.describe_clusters")

\* A complete RDS description with Engine "aurora-postgresql".
RdsGoodPostgres ==
    /\ RdsReturned
    /\ rds_response.body.HasDatabaseName
    /\ rds_response.body.Engine = EnginePostgres

NameHyphen == <<"m", "e", "d", "i", "c", "a", "r", "e", "-", "e", "v", "e", "n", "t", "s">>
NameUnderscore == <<"m", "e", "d", "i", "c", "a", "r", "e", "_", "e", "v", "e", "n", "t", "s">>

\* C10 (as claimed): AwsDatabaseConnectionManager(name="medicare-events") can
\* fail only because the describe call did not return an aurora-postgresql
\* description or because the secret lookup failed.
C10_HyphenNameConstructs ==
    (aws_entry = "manager" /\ name = NameHyphen /\ aws_pc = "failed")
        => (rds_response.status # "none" /\ ~RdsGoodPostgres) \/ SecretLookupFailed

\* C10 (amended): the name that constructs is "medicare_events", in any letter
\* case: with a complete aurora-postgresql description and a successful
\* secret lookup the manager is built with dialect "postgresql" and the
\* Endpoint, Port, MasterUsername and DatabaseName of the description;
\* "medicare-events" matches no key and fails with the invalid-name
\* ValueError before any API call.
C10_UnderscoreNameConstructs ==
    /\ (aws_entry = "manager" /\ StrLower(name) = NameUnderscore /\ AwsTerminated
          /\ RdsGoodPostgres /\ ~SecretLookupFailed)
        => /\ aws_pc \in {"done", "connected"}
           /\ manager.built
           /\ manager.dialect = "postgresql"
           /\ manager.host = rds_response.body.Endpoint
           /\ manager.port = rds_response.body.Port
           /\ manager.user = rds_response.body.MasterUsername
           /\ manager.database = rds_response.body.DatabaseName
           /\ cluster_name = MEDICARE_EVENTS.cluster_identifer
           /\ ~Called("redshift.describe_clusters")
    /\ (aws_entry = "manager" /\ name = NameHyphen /\ AwsTerminated)
        => (aws_pc = "failed" /\ aws_error = InvalidNameError /\ aws_calls = <<>>)

\* C10 witness: a manager named "medicare_events" has been built from an
\* aurora-postgresql description.
C10_Witness ==
    /\ aws_entry = "manager"
    /\ name = NameUnderscore
    /\ aws_pc = "done"
    /\ RdsGoodPostgres
    /\ manager.built
    /\ manager.dialect = "postgresql"

\* a and b are the same string up to the case of their letters.
EqualsIgnoreCase(a, b) ==
    Len(a) = Len(b) /\ \A i \in 1..Len(a) : LowerChar(a[i]) = LowerChar(b[i])

MatchingKeys == {k \in ClusterKeys : EqualsIgnoreCase(name, k)}

\* C11: a manager goes on to the describe step, with the cluster identifier
\* and the secret name of key K, if and only if its name equals a key K of
\* CONFIGURED_CLUSTER_LIST up to letter case; any other name fails with the
\* invalid-name ValueError before any describe call or secret lookup.
C11_NameLookupIgnoresCase ==
    (aws_entry = "manager" /\ aws_pc # "post_init")
        => IF MatchingKeys # {}
           THEN /\ \A k \in MatchingKeys :
                      /\ cluster_name = CONFIGURED_CLUSTER_LIST[k].cluster_identifer
                      /\ password_secret_name = CONFIGURED_CLUSTER_LIST[k].password_secret_name
                /\ aws_pc = "rds_describe" \/ Called("rds.describe_db_clusters")
                /\ aws_error # InvalidNameError
           ELSE /\ aws_pc = "failed"
                /\ aws_error = InvalidNameError
                /\ aws_calls = <<>>
                /\ cluster_name = ""

\* C11 witness: the mixed-case name "Msp_Final" reached the describe step with
\* the identifiers of MSP_FINAL.
C11_Witness ==
    /\ aws_entry = "manager"
    /\ name = <<"M", "s", "p", "_", "F", "i", "n", "a", "l">>
    /\ Called("rds.describe_db_clusters")
    /\ cluster_name = MSP_FINAL.cluster_identifer
    /\ password_secret_name = MSP_FINAL.password_secret_name

\* C12: whenever a descriptor is returned, its password is what the secret
\* store holds under the secret name of the resolution (for a manager: the one
\* mapped to its name), and exactly one secret lookup was made.
C12_PasswordFromSecretStore ==
    connection_details.built
        => /\ connection_details.password = SecretStore(password_secret_name)
           /\ TimesCalled("secretsmanager.get_secret_value") = 1
           /\ aws_entry = "manager"
                => /\ password_secret_name =
                          CONFIGURED_CLUSTER_LIST[StrUpper(name)].password_secret_name
                   /\ manager.built => manager.password = SecretStore(password_secret_name)

\* C12 witness: a manager was built through the Redshift fallback and carries
\* the secret of its configured secret name.
C12_Witness ==
    /\ aws_entry = "manager"
    /\ manager.built
    /\ manager.dialect = "redshift"
    /\ manager.password = SecretStore(MEDICARE_EVENTS.password_secret_name)

-----------------------------------------------------------------------------
(* LastpassManager: __post_init__, _authenticate, _lpass_cred, bash_cmd *)

\* The two copies of the class: the package's and the repository root's.
LpModules == {"tb_function_library", "root"}

CalledProcessError == [type |-> "CalledProcessError", msg |-> "non-zero exit status"]
BareAssertionError == [type |-> "AssertionError", msg |-> ""]

\* str.strip() of the captured standard output
Whitespace == {" ", "\n", "\t"}
RECURSIVE StripLeft(_)
StripLeft(s) ==
    IF Len(s) > 0 /\ Head(s) \in Whitespace THEN StripLeft(Tail(s)) ELSE s
RECURSIVE StripRight(_)
StripRight(s) ==
    IF Len(s) > 0 /\ s[Len(s)] \in Whitespace
    THEN StripRight(SubSeq(s, 1, Len(s) - 1))
    ELSE s
Strip(s) == StripRight(StripLeft(s))

\* bash_cmd(cmd): subprocess.run(..., check=True) raises CalledProcessError on
\* a non-zero exit status, otherwise the stripped standard output is returned.
BashCmd(outcome) ==
    IF outcome.status = "ok" THEN Returned(Strip(outcome.body)) ELSE outcome

\* The six fetches of __post_init__, in the order they are made.
LpassShowArgs_NoPort ==
    <<[attr |-> "db_type", arg |-> "--field Type"],
      [attr |-> "database", arg |-> "--field Database"],
      [attr |-> "user", arg |-> "--username"],
      [attr |-> "password", arg |-> "--password"],
      [attr |-> "host", arg |-> "--field Hostname"]>>
LpassShowArgs ==
    <<[attr |-> "db_type", arg |-> "--field Type"],
      [attr |-> "database", arg |-> "--field Database"],
      [attr |-> "user", arg |-> "--username"],
      [attr |-> "password", arg |-> "--password"],
      [attr |-> "host", arg |-> "--field Hostname"],
      [attr |-> "port", arg |-> "--field Port"]>>

\* What the lpass CLI can print for an entry's field.
LpassStdout(attr) ==
    CASE attr = "db_type" -> {<<"p", "g", "\n">>}
      [] attr = "database" -> {<<"d", "b", "\n">>}
      [] attr = "user" -> {u \o <<"\n">> : u \in Usernames}
      [] attr = "password" -> {<<" ", "p", "w", "\n">>}
      [] attr = "host" -> {<<"h", "\n">>}
      [] attr = "port" -> {<<"5", "4", "3", "2", "\n">>}

LpassOutcomes(stdouts) ==
    {Returned(o) : o \in stdouts} \cup {Raised(CalledProcessError)}

LpCall(cmd, arg, outcome) == [cmd |-> cmd, arg |-> arg, ok |-> outcome.status = "ok"]

\* _authenticate: except subprocess.CalledProcessError, then lpass login
LoginNeeded_Always(outcome) == TRUE
LoginNeeded(outcome) ==
    outcome.status = "raised" /\ outcome.exc.type = "CalledProcessError"

\* the exception raised by the except clause of __post_init__
PostInitError(module) ==
    IF module = "tb_function_library" THEN BareValueError ELSE BareAssertionError

lp_inputs == <<lp_module, lp_driver, lp_dialect>>

\* _authenticate: bash_cmd("lpass status")
LpStatus ==
    /\ lp_pc = "status"
    /\ \E o \in LpassOutcomes({<<"L", "o", "g", "g", "e", "d", " ", "i", "n", "\n">>}) :
          LET r == BashCmd(o)
          IN  /\ lp_calls' = Append(lp_calls, LpCall("lpass status", "", r))
              /\ lp_pc' = IF LoginNeeded(r) THEN "login" ELSE "show"
    /\ UNCHANGED <<lp_inputs, lp_show, lp_fields, lp_obj, lp_error>>
    /\ UNCHANGED <<lp_others, driver_call>>

\* _authenticate: bash_cmd(f"lpass login {lpass_login}"), outside any try
LpLogin ==
    /\ lp_pc = "login"
    /\ \E o \in LpassOutcomes({<<"S", "u", "c", "c", "e", "s", "s", "\n">>}) :
          LET r == BashCmd(o)
          IN  /\ lp_calls' = Append(lp_calls, LpCall("lpass login", "", r))
              /\ IF r.status = "ok"
                 THEN lp_pc' = "show" /\ UNCHANGED lp_error
                 ELSE lp_pc' = "failed" /\ lp_error' = r.exc
    /\ UNCHANGED <<lp_inputs, lp_show, lp_fields, lp_obj>>
    /\ UNCHANGED <<lp_others, driver_call>>

\* self.<attr> = self._lpass_cred(<arg>), inside the try of __post_init__
LpShow ==
    /\ lp_pc = "show"
    /\ lp_show < Len(LpassShowArgs)
    /\ LET f == LpassShowArgs[lp_show + 1]
       IN  \E o \in LpassOutcomes(LpassStdout(f.attr)) :
              LET r == BashCmd(o)
              IN  /\ lp_calls' = Append(lp_calls, LpCall("lpass show", f.arg, r))
                  /\ IF r.status = "ok"
                     THEN /\ lp_fields' = [lp_fields EXCEPT ![f.attr] = Bound(r.body)]
                          /\ lp_show' = lp_show + 1
                          /\ UNCHANGED <<lp_pc, lp_error>>
                     ELSE /\ lp_pc' = "failed"
                          /\ lp_error' = PostInitError(lp_module)
                          /\ UNCHANGED <<lp_fields, lp_show>>
    /\ UNCHANGED <<lp_inputs, lp_obj>>
    /\ UNCHANGED <<lp_others, driver_call>>

\* self.engine_str = ..., the end of __post_init__
LpBuild ==
    /\ lp_pc = "show"
    /\ lp_show = Len(LpassShowArgs)
    /\ LET a == lp_fields
       IN  lp_obj' = [built |-> TRUE, db_type |-> a.db_type.v, database |-> a.database.v,
                      user |-> a.user.v, password |-> a.password.v, host |-> a.host.v,
                      port |-> a.port.v,
                      engine_str |-> EngineStr(lp_dialect, lp_driver, a.user.v, a.password.v,
                                               a.host.v, a.port.v, a.database.v)]
    /\ lp_pc' = "done"
    /\ UNCHANGED <<lp_inputs, lp_show, lp_fields, lp_error, lp_calls>>
    /\ UNCHANGED <<lp_others, driver_call>>

\* int(s) of a string of decimal digits
RECURSIVE ParseInt(_)
ParseInt(s) ==
    IF Len(s) = 0
    THEN 0
    ELSE 10 * ParseInt(SubSeq(s, 1, Len(s) - 1)) + (Ord(s[Len(s)]) - Ord("0"))

LpConnect ==
    /\ lp_pc = "done"
    /\ \E style \in ConnectionStyles :
          driver_call' =
              IF style = "psycopg2"
              THEN Psycopg2Call(lp_obj.host, lp_obj.database, ParseInt(lp_obj.port),
                                lp_obj.user, lp_obj.password)
              ELSE SqlalchemyCall(lp_obj.engine_str)
    /\ lp_pc' = "connected"
    /\ UNCHANGED <<lp_inputs, lp_show, lp_fields, lp_obj, lp_error, lp_calls>>
    /\ UNCHANGED lp_others

LpInit ==
    /\ FtqIdle
    /\ AwsIdle
    /\ driver_call = NoDriverCall
    /\ QIdle
    /\ S3Idle
    /\ CteIdle
    /\ UiIdle
    /\ lp_module \in LpModules
    /\ lp_driver \in Drivers
    /\ lp_dialect = "postgresql"
    /\ lp_pc = "status"
    /\ lp_show = 0
    /\ lp_fields = NoFields
    /\ lp_obj = NoObject
    /\ lp_error = NoError
    /\ lp_calls = <<>>

LpNext ==
    \/ LpStatus
    \/ LpLogin
    \/ LpShow
    \/ LpBuild
    \/ LpConnect

SpecLpass == LpInit /\ [][LpNext]_vars

\* Both credential managers, either one being constructed and then connected.
ManagersInit == AwsInit \/ LpInit

ManagersNext ==
    \/ AwsNext
    \/ LpNext

SpecManagers == ManagersInit /\ [][ManagersNext]_vars

-----------------------------------------------------------------------------
(* Claims about LastpassManager and the connection builders *)

LpShowCalls == {i \in 1..Len(lp_calls) : lp_calls[i].cmd = "lpass show"}
LpShowFailed == \E i \in LpShowCalls : ~lp_calls[i].ok
LpShowSucceeded(arg) == \E i \in LpShowCalls : lp_calls[i].arg = arg /\ lp_calls[i].ok
SixFetches ==
    {"--field Type", "--field Database", "--username", "--password",
     "--field Hostname", "--field Port"}

\* C13: once any lpass show fetch has failed, construction has failed with an
\* error, and there is no LastpassManager object and no engine string; an
\* object exists only when all six fetches (Type, Database, username,
\* password, Hostname, Port) succeeded.
C13_AnyFailedFetchFailsConstruction ==
    /\ LpShowFailed => (lp_pc = "failed" /\ lp_error # NoError /\ lp_obj = NoObject)
    /\ lp_obj.built => \A arg \in SixFetches : LpShowSucceeded(arg)

\* C13 witness: the fetch of the password failed after three fetches had
\* succeeded, and construction failed without an object.
C13_Witness ==
    /\ lp_pc = "failed"
    /\ lp_obj = NoObject
    /\ LpShowSucceeded("--username")
    /\ \E i \in LpShowCalls : lp_calls[i].arg = "--password" /\ ~lp_calls[i].ok

LpLoginCalls == {i \in 1..Len(lp_calls) : lp_calls[i].cmd = "lpass login"}

\* C14: lpass status is the first CLI call; lpass login is issued at most
\* once and only after lpass status failed; every lpass show comes after the
\* status/login step; no lpass show for the same field is issued twice.
C14_CliCallOrder ==
    /\ lp_calls # <<>> => lp_calls[1].cmd = "lpass status"
    /\ Cardinality(LpLoginCalls) <= 1
    /\ \A i \in LpLoginCalls :
          \E j \in 1..(i - 1) : lp_calls[j].cmd = "lpass status" /\ ~lp_calls[j].ok
    /\ \A i \in LpShowCalls :
          /\ \E j \in 1..(i - 1) : lp_calls[j].cmd = "lpass status"
          /\ \A j \in (i + 1)..Len(lp_calls) : lp_calls[j].cmd = "lpass show"
    /\ \A i, j \in LpShowCalls : lp_calls[i].arg = lp_calls[j].arg => i = j

\* C14 witness: a construction that logged in after a failed status and then
\* made all six fetches.
C14_Witness ==
    /\ lp_pc = "done"
    /\ LpLoginCalls # {}
    /\ Cardinality(LpShowCalls) = Cardinality(SixFetches)

\* C15: every failure of the package's LastpassManager construction, at
\* whichever step, reaches the caller as the generic ValueError that
\* AwsDatabaseConnectionManager raises.
C15_OneGenericFailureType ==
    (lp_module = "tb_function_library" /\ lp_pc = "failed")
        => lp_error.type = BareValueError.type

\* the engine string the claim describes, with and without the driver part
DsnWithDriver(dialect, drv, user, password, host, port, database) ==
    <<Fld("dialect", dialect), Txt("+"), Fld("driver", drv)>>
    \o <<Txt("://"), Fld("user", user), Txt(":"), Fld("password", password), Txt("@"),
         Fld("host", host), Txt(":"), Fld("port", port), Txt("/"),
         Fld("database", database)>>
DsnWithoutDriver(dialect, user, password, host, port, database) ==
    <<Fld("dialect", dialect)>>
    \o <<Txt("://"), Fld("user", user), Txt(":"), Fld("password", password), Txt("@"),
         Fld("host", host), Txt(":"), Fld("port", port), Txt("/"),
         Fld("database", database)>>
DsnAsClaimed(obj, dialect, drv) ==
    /\ drv # NoneVal =>
          obj.engine_str = DsnWithDriver(dialect, drv.val, obj.user, obj.password,
                                         obj.host, obj.port, obj.database)
    /\ drv = NoneVal <=>
          obj.engine_str = DsnWithoutDriver(dialect, obj.user, obj.password,
                                            obj.host, obj.port, obj.database)

\* C16: for every resolved descriptor of either manager the engine string is
\* dialect + '+' + driver + '://' + user + ':' + password + '@' + host + ':'
\* + port + '/' + database when a driver is set, and the same without the
\* '+driver' part if and only if driver is None.
C16_EngineStringShape ==
    /\ lp_obj.built => DsnAsClaimed(lp_obj, lp_dialect, lp_driver)
    /\ manager.built => DsnAsClaimed(manager, manager.dialect, driver)

\* C16 witness: a manager built with driver None, and one built with the
\* empty string as its driver.
C16_Witness ==
    \/ lp_obj.built /\ lp_driver = NoneVal
    \/ manager.built /\ driver = [kind |-> "str", val |-> ""]

ResolvedUser == IF lp_obj.built THEN lp_obj.user ELSE manager.user

\* C17: for both connection styles and both managers the username handed to
\* the driver is the lower-cased form of the resolved username.
C17_UsernameLowerCased ==
    driver_call.made => driver_call.user = StrLower(ResolvedUser)

-----------------------------------------------------------------------------
(* queries_as_functions: the four query functions and params_in_query_template *)

\* A str is written here as the sequence of its pieces: each brace is a piece
\* of its own, and the text between braces is cut into brace-free pieces.
IntVal(n) == [kind |-> "int", val |-> n]

\* `if x:` for None, False, an int and a str
Truthy(x) ==
    CASE x.kind = "str" -> Len(x.val) > 0
      [] x.kind = "int" -> x.val # 0
      [] x.kind = "true" -> TRUE
      [] OTHER -> FALSE

\* psycopg2.sql composables
SQL(text) == [kind |-> "SQL", v |-> text]
Identifier(s) == [kind |-> "Identifier", v |-> s]
Literal(x) == [kind |-> "Literal", v |-> x]

FormatValueError(msg) == [type |-> "ValueError", msg |-> msg]
IndexError == [type |-> "IndexError", msg |-> "tuple index out of range"]

\* SQL(query_template).format(**params): string.Formatter().parse over the
\* template; "{{" and "}}" are literal braces, "{name}" is replaced by
\* kwargs[name], "{}" by the next positional argument (there is none), and an
\* unbalanced brace is a ValueError.  Field names here are never numeric.
RECURSIVE SqlFormat(_, _, _, _)
SqlFormat(toks, i, kwargs, acc) ==
    IF i > Len(toks)
    THEN Returned(acc)
    ELSE IF toks[i] = "{"
    THEN IF i + 1 > Len(toks)
         THEN Raised(FormatValueError("Single '{' encountered in format string"))
         ELSE IF toks[i + 1] = "{"
         THEN SqlFormat(toks, i + 2, kwargs, Append(acc, SQL("{")))
         ELSE IF toks[i + 1] = "}"
         THEN Raised(IndexError)
         ELSE IF i + 2 <= Len(toks) /\ toks[i + 2] = "}"
         THEN IF toks[i + 1] \in DOMAIN kwargs
              THEN SqlFormat(toks, i + 3, kwargs, Append(acc, kwargs[toks[i + 1]]))
              ELSE Raised(KeyError(toks[i + 1]))
         ELSE Raised(FormatValueError("expected '}' before end of string"))
    ELSE IF toks[i] = "}"
    THEN IF i + 1 <= Len(toks) /\ toks[i + 1] = "}"
         THEN SqlFormat(toks, i + 2, kwargs, Append(acc, SQL("}")))
         ELSE Raised(FormatValueError("Single '}' encountered in format string"))
    ELSE SqlFormat(toks, i + 1, kwargs, Append(acc, SQL(toks[i])))

params_in_query_template(query_template, params) ==
    SqlFormat(query_template, 1, params, <<>>)

\* query_template of tables_in_schema_query
TablesInSchemaTemplate ==
    <<"\n SELECT table_name,'TABLE' as table_or_view FROM information_schema.tables WHERE table_schema = ",
      "{", "schema", "}",
      " AND table_type='BASE TABLE' UNION SELECT table_name,'VIEW' as table_or_view FROM information_schema.views WHERE table_schema = ",
      "{", "schema", "}", "\n">>
TablesInSchemaParams(schema) == [schema |-> Literal(StrVal(schema))]

\* query_template of columns_dtypes_of_table_query
ColumnsDtypesTemplate ==
    <<"\n SELECT c.column_name, c.udt_name as dtype FROM information_schema.columns c WHERE c.table_schema = ",
      "{", "schema", "}", " AND c.table_name = ", "{", "table", "}", "\n">>
ColumnsDtypesParams(schema, table) ==
    [schema |-> Literal(StrVal(schema)), table |-> Literal(StrVal(table))]

\* query_template of row_count_query
RowCountTemplate ==
    <<"\n SELECT count(*) FROM ", "{", "schema", "}", ".", "{", "table", "}", "\n">>
RowCountParams_Literal(schema, table) ==
    [schema |-> Literal(StrVal(schema)), table |-> Literal(StrVal(table))]
RowCountParams(schema, table) ==
    [schema |-> Identifier(schema), table |-> Identifier(table)]

\* generic_sql_query: what `random` appends to the template
SamplingFilter_Where(has_clause, random) ==
    IF random THEN <<"\n", "WHERE RANDOM() < 0.1">> ELSE <<>>
SamplingFilter(has_clause, random) ==
    IF ~random
    THEN <<>>
    ELSE IF has_clause
    THEN <<" AND RANDOM() < 0.1">>
    ELSE <<"\n", "WHERE RANDOM() < 0.1">>

GenericTemplate(clause, limit, random) ==
    LET base == <<"\n SELECT * FROM ", "{", "schema", "}", ".", "{", "table", "}", "\n">>
        filtered == IF Truthy(clause)
                    THEN base \o <<"\n">> \o clause.val \o SamplingFilter(TRUE, random)
                    ELSE base \o SamplingFilter(FALSE, random)
    IN  IF Truthy(limit)
        THEN filtered \o <<"\n", "LIMIT ", "{", "limit", "}">>
        ELSE filtered
GenericParams(schema, table, limit) ==
    LET base == [schema |-> Identifier(schema), table |-> Identifier(table)]
    IN  IF Truthy(limit) THEN base @@ ("limit" :> Literal(limit)) ELSE base

\* query = params_in_query_template(query_template, params); return query
QueryReturn(template, params) ==
    /\ q_template' = template
    /\ q_params' = params
    /\ LET r == params_in_query_template(template, params)
       IN  IF r.status = "ok"
           THEN q_return' = r.body /\ q_pc' = "done" /\ UNCHANGED q_error
           ELSE q_error' = r.exc /\ q_pc' = "failed" /\ UNCHANGED q_return

q_args == <<q_kind, q_schema, q_table, q_clause, q_limit, q_random>>

tables_in_schema_query ==
    /\ q_pc = "call"
    /\ q_kind = "tables_in_schema_query"
    /\ QueryReturn(TablesInSchemaTemplate, TablesInSchemaParams(q_schema))
    /\ UNCHANGED <<q_args, q_others>>

columns_dtypes_of_table_query ==
    /\ q_pc = "call"
    /\ q_kind = "columns_dtypes_of_table_query"
    /\ QueryReturn(ColumnsDtypesTemplate, ColumnsDtypesParams(q_schema, q_table))
    /\ UNCHANGED <<q_args, q_others>>

row_count_query ==
    /\ q_pc = "call"
    /\ q_kind = "row_count_query"
    /\ QueryReturn(RowCountTemplate, RowCountParams(q_schema, q_table))
    /\ UNCHANGED <<q_args, q_others>>

generic_sql_query ==
    /\ q_pc = "call"
    /\ q_kind = "generic_sql_query"
    /\ QueryReturn(GenericTemplate(q_clause, q_limit, q_random),
                   GenericParams(q_schema, q_table, q_limit))
    /\ UNCHANGED <<q_args, q_others>>

(* Inputs of the query functions *)
SchemaNames == {"public", "a\"b", "s;DROP SCHEMA x"}
QTableNames == {"events", "t'x", "u;--"}
Clauses ==
    {NoneVal, StrVal(<<>>), StrVal(<<"WHERE a = 1">>),
     StrVal(<<"WHERE t = '", "{", "table", "}", "'">>),
     StrVal(<<"WHERE j = '", "{", "}", "'">>),
     StrVal(<<"WHERE j = '", "{", "\"k\": 1", "}", "'">>),
     StrVal(<<"WHERE j = '", "{">>)}
Limits == {FalseVal, IntVal(0), IntVal(10)}

QInit ==
    /\ FtqIdle
    /\ AwsIdle
    /\ LpIdle
    /\ driver_call = NoDriverCall
    /\ S3Idle
    /\ CteIdle
    /\ UiIdle
    /\ q_kind \in {"tables_in_schema_query", "columns_dtypes_of_table_query",
                   "row_count_query", "generic_sql_query"}
    /\ q_schema \in SchemaNames
    /\ q_table \in IF q_kind = "tables_in_schema_query" THEN {""} ELSE QTableNames
    /\ q_clause \in IF q_kind = "generic_sql_query" THEN Clauses ELSE {NoneVal}
    /\ q_limit \in IF q_kind = "generic_sql_query" THEN Limits ELSE {FalseVal}
    /\ q_random \in IF q_kind = "generic_sql_query" THEN BOOLEAN ELSE {FALSE}
    /\ q_pc = "call"
    /\ q_template = <<>>
    /\ q_params = <<>>
    /\ q_return = <<>>
    /\ q_error = NoError

QNext ==
    \/ tables_in_schema_query
    \/ columns_dtypes_of_table_query
    \/ row_count_query
    \/ generic_sql_query

SpecQuery == QInit /\ [][QNext]_vars

-----------------------------------------------------------------------------
(* Claims about the query functions *)

QPieces == 1..Len(q_return)
NameArgs == IF q_kind = "tables_in_schema_query" THEN {q_schema} ELSE {q_schema, q_table}
BoundAsIdentifier(n) == \E i \in QPieces : q_return[i] = Identifier(n)
BoundAsLiteral(n) == \E i \in QPieces : q_return[i] = Literal(StrVal(n))

\* C18 as stated: in each of the four query functions the schema name and the
\* table name are bound as identifiers and never as literals.
C18_NamesBoundAsIdentifiers ==
    q_pc = "done" =>
        \A n \in NameArgs : BoundAsIdentifier(n) /\ ~BoundAsLiteral(n)

\* C18 as amended: row_count_query and generic_sql_query bind the schema and
\* table names as identifiers and never as literals; tables_in_schema_query
\* and columns_dtypes_of_table_query bind them as literals and never as
\* identifiers; no query function inserts a name as raw SQL text; the limit of
\* generic_sql_query is bound as a literal, the last piece of the query.
C18_NamesBoundPerQueryKind ==
    q_pc = "done" =>
        /\ q_kind \in {"row_count_query", "generic_sql_query"} =>
              \A n \in NameArgs : BoundAsIdentifier(n) /\ ~BoundAsLiteral(n)
        /\ q_kind \in {"tables_in_schema_query", "columns_dtypes_of_table_query"} =>
              \A n \in NameArgs : BoundAsLiteral(n) /\ ~BoundAsIdentifier(n)
        /\ \A n \in NameArgs : \A i \in QPieces : q_return[i] # SQL(n)
        /\ (q_kind = "generic_sql_query" /\ q_limit.kind = "int" /\ q_limit.val # 0) =>
              q_return[Len(q_return)] = Literal(q_limit)

\* C18 witness: row_count_query and tables_in_schema_query have each built a
\* query for a schema name that contains a quote or a semicolon.
C18_Witness ==
    /\ q_pc = "done"
    /\ q_schema \in {"a\"b", "s;DROP SCHEMA x"}
    /\ q_kind \in {"row_count_query", "tables_in_schema_query"}

ClauseSupplied == q_clause.kind = "str" /\ q_clause.val # <<>>
AndFilter == SQL(" AND RANDOM() < 0.1")
WhereFilter == SQL("WHERE RANDOM() < 0.1")
QHas(piece) == \E i \in QPieces : q_return[i] = piece

\* C19: in a query built by generic_sql_query, with random=True and a
\* non-empty clause the sampling filter ' AND RANDOM() < 0.1' directly follows
\* the clause and there is no 'WHERE RANDOM() < 0.1'; with random=True and no
\* clause the filter is 'WHERE RANDOM() < 0.1'; with random=False there is no
\* sampling filter; a LIMIT comes after the sampling filter.
C19_SamplingFilter ==
    (q_kind = "generic_sql_query" /\ q_pc = "done") =>
        /\ (q_random /\ ClauseSupplied) =>
              /\ \E i \in QPieces :
                    /\ i > 1
                    /\ q_return[i] = AndFilter
                    /\ q_return[i - 1] = SQL(q_clause.val[Len(q_clause.val)])
              /\ ~QHas(WhereFilter)
        /\ (q_random /\ ~ClauseSupplied) => (QHas(WhereFilter) /\ ~QHas(AndFilter))
        /\ ~q_random => (~QHas(WhereFilter) /\ ~QHas(AndFilter))
        /\ \A i, j \in QPieces :
              (q_return[i] = SQL("LIMIT ") /\ q_return[j] \in {AndFilter, WhereFilter})
                  => j < i

\* C19 witness: a query built with a clause, random=True and a limit.
C19_Witness ==
    /\ q_kind = "generic_sql_query"
    /\ q_pc = "done"
    /\ q_random
    /\ ClauseSupplied
    /\ q_limit = IntVal(10)

-----------------------------------------------------------------------------
(* s3_utils and the file_utils helpers it calls *)

BucketName == "bucket"
Region == "us-east-1"

AttributeError(attr) == [type |-> "AttributeError", msg |-> attr]
OSError == [type |-> "OSError", msg |-> "cannot create directory"]
S3UploadFailedError == [type |-> "S3UploadFailedError", msg |-> "Failed to upload"]
FilenameValueError ==
    [type |-> "ValueError", msg |-> "Filename must be a string or a path-like object"]
IsClientError(exc) == exc.type = "ClientError"

\* the outcome of a function: its value or its exception, and the calls made
S3Ok(v, calls) == [status |-> "ok", body |-> v, calls |-> calls]
S3Raise(exc, calls) == [status |-> "raised", exc |-> exc, calls |-> calls]
S3Call(api, key) == [api |-> api, key |-> key, local |-> NoneVal]
S3Transfer(api, key, local) == [api |-> api, key |-> key, local |-> local]

\* ensure_file_slash
ensure_file_slash(directory) ==
    IF directory # <<>> /\ directory[Len(directory)] # "/"
    THEN directory \o <<"/">>
    ELSE directory

\* filename_is_blank
filename_is_blank(filename) == filename = <<>>

\* check_if_file_exists: os.path.exists of the directory and of the file
check_if_file_exists(world, directory, filename) ==
    LET dir == ensure_file_slash(directory)
    IN  IF filename_is_blank(filename)
        THEN FalseVal
        ELSE IF world.local_dir_exists /\ world.local_file_exists
        THEN StrVal(dir \o filename)
        ELSE FalseVal

\* Requests to the object store.  A fault (no permission, no connection)
\* fails every request; a missing bucket or key is a ClientError.
FaultRaised(world) ==
    IF world.fault = "client"
    THEN Raised(ClientError("AccessDenied"))
    ELSE Raised(EndpointConnectionError)

\* s3_resource.head_bucket: a ServiceResource has no such attribute
ResourceHeadBucket == Raised(AttributeError("head_bucket"))

\* s3_resource.meta.client.head_bucket(Bucket=bucket_name)
ClientHeadBucket(world) ==
    IF world.fault # "none" THEN FaultRaised(world)
    ELSE IF ~world.bucket_exists THEN Raised(ClientError("404"))
    ELSE Returned(NoneVal)

\* s3_resource.Object(bucket_name=..., key=key).load()
ObjectLoad(world, key) ==
    IF world.fault # "none" THEN FaultRaised(world)
    ELSE IF ~world.bucket_exists \/ key \notin world.keys THEN Raised(ClientError("404"))
    ELSE Returned(NoneVal)

\* s3_resource.Bucket(bucket).put_object(Key=key)
PutObject(world, key) ==
    IF world.fault # "none" THEN FaultRaised(world)
    ELSE IF ~world.bucket_exists THEN Raised(ClientError("NoSuchBucket"))
    ELSE Returned(NoneVal)

\* s3_resource.Bucket(bucket).upload_file(local_filepath, key): ClientError is
\* re-raised as S3UploadFailedError
UploadFile(world, key) ==
    IF world.fault = "client" \/ (world.fault = "none" /\ ~world.bucket_exists)
    THEN Raised(S3UploadFailedError)
    ELSE IF world.fault # "none" THEN FaultRaised(world)
    ELSE Returned(NoneVal)

\* s3_resource.Bucket(bucket).download_file(key, local_filepath)
DownloadFile(world, key) ==
    IF world.fault # "none" THEN FaultRaised(world)
    ELSE IF ~world.bucket_exists \/ key \notin world.keys THEN Raised(ClientError("404"))
    ELSE Returned(NoneVal)

\* try: <call> ... return True / except ClientError: return False
TrueUnlessClientError(r, calls) ==
    IF r.status = "ok" THEN S3Ok(TrueVal, calls)
    ELSE IF IsClientError(r.exc) THEN S3Ok(FalseVal, calls)
    ELSE S3Raise(r.exc, calls)

\* check_if_folder_exists_in_s3_bucket(s3_resource, bucket_name, directory)
CheckIfFolderExistsInS3Bucket(world, directory) ==
    LET dir == ensure_file_slash(directory)
        hb == ResourceHeadBucket
    IN  IF hb.status = "raised"
        THEN IF IsClientError(hb.exc) THEN S3Ok(FalseVal, <<>>) ELSE S3Raise(hb.exc, <<>>)
        ELSE TrueUnlessClientError(ObjectLoad(world, dir), <<S3Call("Object.load", dir)>>)

\* check_if_file_exists_in_s3(s3_resource, bucket_name, filename, path)
CheckIfFileExistsInS3(world, filename, path) ==
    IF filename_is_blank(filename)
    THEN S3Ok(FalseVal, <<>>)
    ELSE IF path.kind = "none"
    THEN LET hb == ClientHeadBucket(world)
             c1 == <<S3Call("client.head_bucket", <<>>)>>
         IN  IF hb.status = "raised"
             THEN IF IsClientError(hb.exc) THEN S3Ok(FalseVal, c1) ELSE S3Raise(hb.exc, c1)
             ELSE TrueUnlessClientError(ObjectLoad(world, filename),
                                        Append(c1, S3Call("Object.load", filename)))
    ELSE LET fo == CheckIfFolderExistsInS3Bucket(world, path.val)
         IN  IF fo.status = "raised"
             THEN IF IsClientError(fo.exc)
                  THEN S3Ok(FalseVal, fo.calls)
                  ELSE S3Raise(fo.exc, fo.calls)
             ELSE LET file_path == ensure_file_slash(path.val) \o filename
                  IN  TrueUnlessClientError(ObjectLoad(world, file_path),
                                            Append(fo.calls, S3Call("Object.load", file_path)))

\* the console link move_local_file_to_s3 returns
ConsoleLink(bucket, region, s3_filepath) ==
    <<Txt("https://s3.console.aws.amazon.com/s3/object/"), Fld("bucket", bucket),
      Txt("?region="), Fld("region", region), Txt("&prefix="),
      Fld("s3_filepath", s3_filepath)>>

\* move_local_file_to_s3(s3_resource, local_filename, local_path, bucket,
\* region, s3_filename, s3_path).  upload_file(False, key) is either rejected
\* before any request (the transfer layer checks the filename's type) or goes
\* on with file descriptor 0, depending on the installed boto3.
MoveLocalFileToS3(world, a) ==
    LET s3_filename == IF ~Truthy(a.filename) THEN a.local_filename ELSE a.filename
        local_filepath == check_if_file_exists(world, a.local_path.val, a.local_filename.val)
        s3_filepath == IF Truthy(a.path)
                       THEN ensure_file_slash(a.path.val) \o s3_filename.val
                       ELSE s3_filename.val
        rejected == local_filepath.kind # "str" /\ world.upload_of_false = "rejected"
        up == IF rejected THEN Raised(FilenameValueError) ELSE UploadFile(world, s3_filepath)
        calls == IF rejected
                 THEN <<>>
                 ELSE <<S3Transfer("Bucket.upload_file", s3_filepath, local_filepath)>>
    IN  IF up.status = "ok"
        THEN S3Ok(StrVal(ConsoleLink(BucketName, Region, s3_filepath)), calls)
        ELSE S3Ok(NoneVal, calls)

\* create_directory_in_s3(s3_resource, bucket, folder_name)
CreateDirectoryInS3(world, folder_name) ==
    LET directory == ensure_file_slash(folder_name)
        r == PutObject(world, directory)
        calls == <<S3Call("Bucket.put_object", directory)>>
    IN  IF r.status = "ok" THEN S3Ok(NoneVal, calls) ELSE S3Raise(r.exc, calls)

\* os.path.dirname(os.path.realpath(__file__))
ModuleDir == <<"/", "p", "k", "g">>

\* make_dir_if_not_exists(folder)
make_dir_if_not_exists(dir_exists, world, folder) ==
    IF dir_exists
    THEN S3Ok(NoneVal, <<>>)
    ELSE IF world.makedirs_fails
    THEN S3Raise(OSError, <<S3Call("os.makedirs", folder)>>)
    ELSE S3Ok(NoneVal, <<S3Call("os.makedirs", folder)>>)

\* pull_file_from_s3(s3_resource, bucket, s3_filename, s3_path, local_path,
\* local_filename)
PullFileFromS3(world, a) ==
    LET s3_path == IF Truthy(a.path) THEN StrVal(ensure_file_slash(a.path.val)) ELSE a.path
        s3_filepath == IF Truthy(a.path) THEN s3_path.val \o a.filename.val ELSE a.filename.val
        chk == CheckIfFileExistsInS3(world, a.filename.val, s3_path)
    IN  IF chk.status = "raised" \/ ~Truthy(chk.body)
        THEN S3Ok(FalseVal, chk.calls)
        ELSE LET local_filename == IF ~Truthy(a.local_filename)
                                   THEN a.filename
                                   ELSE a.local_filename
                 local_path == ensure_file_slash(IF ~Truthy(a.local_path)
                                                 THEN ModuleDir
                                                 ELSE a.local_path.val)
                 local_filepath == local_path \o local_filename.val
                 mk == make_dir_if_not_exists(~Truthy(a.local_path) \/ world.local_dir_exists,
                                              world, local_path)
                 c1 == chk.calls \o mk.calls
                 c2 == Append(c1, S3Transfer("Bucket.download_file", s3_filepath,
                                             StrVal(local_filepath)))
             IN  IF mk.status = "raised"
                 THEN S3Ok(FalseVal, c1)
                 ELSE IF DownloadFile(world, s3_filepath).status = "ok"
                 THEN S3Ok(TrueVal, c2)
                 ELSE S3Ok(FalseVal, c2)

\* The caller receives the value or the exception of the function called.
S3Return(r) ==
    /\ s3_calls' = r.calls
    /\ IF r.status = "ok"
       THEN s3_result' = r.body /\ s3_pc' = "done" /\ UNCHANGED s3_error
       ELSE s3_error' = r.exc /\ s3_pc' = "failed" /\ UNCHANGED s3_result
    /\ UNCHANGED <<s3_op, s3_args, s3_world, s3_others>>

check_if_folder_exists_in_s3_bucket ==
    /\ s3_pc = "call"
    /\ s3_op = "check_if_folder_exists_in_s3_bucket"
    /\ S3Return(CheckIfFolderExistsInS3Bucket(s3_world, s3_args.path.val))

check_if_file_exists_in_s3 ==
    /\ s3_pc = "call"
    /\ s3_op = "check_if_file_exists_in_s3"
    /\ S3Return(CheckIfFileExistsInS3(s3_world, s3_args.filename.val, s3_args.path))

move_local_file_to_s3 ==
    /\ s3_pc = "call"
    /\ s3_op = "move_local_file_to_s3"
    /\ S3Return(MoveLocalFileToS3(s3_world, s3_args))

create_directory_in_s3 ==
    /\ s3_pc = "call"
    /\ s3_op = "create_directory_in_s3"
    /\ S3Return(CreateDirectoryInS3(s3_world, s3_args.path.val))

pull_file_from_s3 ==
    /\ s3_pc = "call"
    /\ s3_op = "pull_file_from_s3"
    /\ S3Return(PullFileFromS3(s3_world, s3_args))

(* Inputs of the S3 functions *)
S3Filenames == {StrVal(<<>>), StrVal(<<"f">>)}
S3Paths == {StrVal(<<>>), StrVal(<<"d">>), StrVal(<<"d", "/">>)}
S3Keys == {<<"f">>, <<"d", "/">>, <<"d", "/", "f">>}
LocalFilenames == {StrVal(<<>>), StrVal(<<"g">>)}
LocalPaths == {StrVal(<<"l">>)}

\* the bucket as the object store holds it
BucketStates ==
    {[bucket_exists |-> e, keys |-> k] :
        e \in BOOLEAN, k \in SUBSET S3Keys} \ {[bucket_exists |-> FALSE, keys |-> k] :
                                                k \in SUBSET S3Keys \ {{}}}
Faults == {"none", "client", "endpoint"}

\* the arguments each function takes
S3ArgsOf(op) ==
    CASE op = "check_if_folder_exists_in_s3_bucket" ->
            {[NoArgs EXCEPT !.path = p] : p \in S3Paths}
      [] op = "create_directory_in_s3" ->
            {[NoArgs EXCEPT !.path = p] : p \in S3Paths}
      [] op = "check_if_file_exists_in_s3" ->
            {[NoArgs EXCEPT !.filename = f, !.path = p] :
                f \in S3Filenames, p \in S3Paths \cup {NoneVal}}
      [] op = "move_local_file_to_s3" ->
            {[filename |-> f, path |-> p, local_filename |-> lf, local_path |-> lp] :
                f \in {NoneVal, StrVal(<<"f">>)}, p \in {NoneVal, StrVal(<<"d">>)},
                lf \in LocalFilenames, lp \in LocalPaths}
      [] op = "pull_file_from_s3" ->
            {[filename |-> f, path |-> p, local_filename |-> lf, local_path |-> lp] :
                f \in S3Filenames, p \in {NoneVal, StrVal(<<>>), StrVal(<<"d">>)},
                lf \in {NoneVal, StrVal(<<"g">>)}, lp \in LocalPaths \cup {NoneVal}}

\* the local file system each function looks at
LocalStatesOf(op) ==
    CASE op = "move_local_file_to_s3" ->
            {[dir |-> TRUE, file |-> TRUE, mk |-> FALSE], [dir |-> TRUE, file |-> FALSE, mk |-> FALSE],
             [dir |-> FALSE, file |-> FALSE, mk |-> FALSE]}
      [] op = "pull_file_from_s3" ->
            {[dir |-> TRUE, file |-> FALSE, mk |-> FALSE], [dir |-> FALSE, file |-> FALSE, mk |-> FALSE],
             [dir |-> FALSE, file |-> FALSE, mk |-> TRUE]}
      [] OTHER -> {[dir |-> FALSE, file |-> FALSE, mk |-> FALSE]}

S3Ops ==
    {"check_if_folder_exists_in_s3_bucket", "check_if_file_exists_in_s3",
     "move_local_file_to_s3", "create_directory_in_s3", "pull_file_from_s3"}

S3Init ==
    /\ FtqIdle
    /\ AwsIdle
    /\ LpIdle
    /\ driver_call = NoDriverCall
    /\ QIdle
    /\ CteIdle
    /\ UiIdle
    /\ s3_op \in S3Ops
    /\ s3_args \in S3ArgsOf(s3_op)
    /\ \E b \in BucketStates, f \in Faults, l \in LocalStatesOf(s3_op),
          u \in IF s3_op = "move_local_file_to_s3" THEN {"rejected", "attempted"}
                ELSE {"rejected"} :
          s3_world = [bucket_exists |-> b.bucket_exists, keys |-> b.keys, fault |-> f,
                      local_dir_exists |-> l.dir, local_file_exists |-> l.file,
                      makedirs_fails |-> l.mk, upload_of_false |-> u]
    /\ s3_pc = "call"
    /\ s3_result = NoneVal
    /\ s3_error = NoError
    /\ s3_calls = <<>>

S3Next ==
    \/ check_if_folder_exists_in_s3_bucket
    \/ check_if_file_exists_in_s3
    \/ move_local_file_to_s3
    \/ create_directory_in_s3
    \/ pull_file_from_s3

SpecS3 == S3Init /\ [][S3Next]_vars

-----------------------------------------------------------------------------
(* Claims about the S3 functions *)

StoreRequests == {i \in 1..Len(s3_calls) : s3_calls[i].api # "os.makedirs"}

\* C20: when an object-store request made inside one of the five S3
\* functions has failed, the function has returned False or None; no failure
\* of such a request reaches the caller as an exception.
C20_StoreFailuresNeverPropagate ==
    (s3_pc # "call" /\ s3_world.fault # "none" /\ StoreRequests # {})
        => (s3_pc = "done" /\ s3_error = NoError /\ s3_result \in {FalseVal, NoneVal})

\* the key the claim names: s3_path (with a trailing "/") followed by s3_filename
PullKey ==
    IF Truthy(s3_args.path)
    THEN ensure_file_slash(s3_args.path.val) \o s3_args.filename.val
    ELSE s3_args.filename.val
PullObjectExists ==
    /\ s3_world.fault = "none"
    /\ s3_world.bucket_exists
    /\ s3_args.filename.val # <<>>
    /\ PullKey \in s3_world.keys
PullLocalDirExists == ~Truthy(s3_args.local_path) \/ s3_world.local_dir_exists
PullDownloadCompletes ==
    s3_world.fault = "none" /\ (PullLocalDirExists \/ ~s3_world.makedirs_fails)
S3Made(api) == \E i \in 1..Len(s3_calls) : s3_calls[i].api = api

\* C21: pull_file_from_s3 never raises; it returns True exactly when the
\* object exists under s3_path + s3_filename and the download completes, and
\* False otherwise; when the object does not exist no local directory is
\* created and no download is attempted.
C21_PullTrueIffObjectDownloaded ==
    (s3_op = "pull_file_from_s3" /\ s3_pc # "call") =>
        /\ s3_pc = "done"
        /\ s3_result \in {TrueVal, FalseVal}
        /\ s3_result = TrueVal <=> (PullObjectExists /\ PullDownloadCompletes)
        /\ ~PullObjectExists => (~S3Made("os.makedirs") /\ ~S3Made("Bucket.download_file"))

-----------------------------------------------------------------------------
(* database_utils.check_if_table_exists *)

\* if (df["table_name"] == table_name).any(): return table_name
\* elif table_name == "": log.error(...)      (falls off the end: None)
\* else: return False
CheckIfTableExists(df, table_name) ==
    IF HasExactMatch(df, table_name)
    THEN StrVal(table_name)
    ELSE IF table_name = <<>>
    THEN NoneVal
    ELSE FalseVal

check_if_table_exists ==
    /\ cte_pc = "call"
    /\ cte_return' = CheckIfTableExists(cte_listing, cte_table_name)
    /\ cte_pc' = "done"
    /\ UNCHANGED <<cte_listing, cte_table_name, cte_others>>

CteInit ==
    /\ FtqIdle
    /\ AwsIdle
    /\ LpIdle
    /\ driver_call = NoDriverCall
    /\ QIdle
    /\ S3Idle
    /\ UiIdle
    /\ cte_listing \in Listings
    /\ cte_table_name \in TableNames \cup {<<>>}
    /\ cte_pc = "call"
    /\ cte_return = NoneVal

CteNext == check_if_table_exists

SpecTableExists == CteInit /\ [][CteNext]_vars

\* C22: check_if_table_exists returns table_name when the listing contains it
\* and False in every other case, the empty table_name included.
C22_TableNameOrFalse ==
    cte_pc = "done" =>
        cte_return = IF cte_table_name \in Range(cte_listing)
                     THEN StrVal(cte_table_name)
                     ELSE FalseVal

-----------------------------------------------------------------------------
(* user_input_utils: ensure_positive_int, ensure_not_blank, ensure_file_exists *)

MaxPrompts == 3

KeyboardInterrupt == [kind |-> "interrupt", val |-> <<>>]
FunctionVal == [kind |-> "function", val |-> <<>>]
IntValueError == [type |-> "ValueError", msg |-> "invalid literal for int()"]
IntTypeError == [type |-> "TypeError", msg |-> "int() argument must be a string or a number"]
FileNotFoundError == [type |-> "FileNotFoundError", msg |-> "No such file or directory"]

\* enter_for_default: what input() returned, or the default when it is ""
enter_for_default(entry, default) ==
    IF entry.val = <<>> THEN default ELSE entry

\* int(x) for an int and for a str: optional sign and decimal digits, with
\* surrounding whitespace ignored
IsIntLiteral(str) ==
    LET t == Strip(str)
        digits == IF t # <<>> /\ t[1] \in {"-", "+"} THEN Tail(t) ELSE t
    IN  digits # <<>> /\ \A i \in 1..Len(digits) : IsDigit(digits[i])
IntOfLiteral(str) ==
    LET t == Strip(str)
    IN  IF t[1] = "-" THEN 0 - ParseInt(Tail(t))
        ELSE IF t[1] = "+" THEN ParseInt(Tail(t))
        ELSE ParseInt(t)
PyInt(x) ==
    IF x.kind = "int" THEN Returned(x)
    ELSE IF x.kind # "str" THEN Raised(IntTypeError)
    ELSE IF IsIntLiteral(x.val) THEN Returned(IntVal(IntOfLiteral(x.val)))
    ELSE Raised(IntValueError)

\* One pass of the while loop of ensure_positive_int.
EpiIterate ==
    /\ ui_fn = "ensure_positive_int"
    /\ ui_pc = "loop"
    /\ Len(ui_entries) < MaxPrompts
    /\ \E e \in {StrVal(<<>>), StrVal(<<"a", "b", "c">>), StrVal(<<"-", "5">>), StrVal(<<"0">>), StrVal(<<" ", "7">>),
                 KeyboardInterrupt} :
          /\ ui_entries' = Append(ui_entries, e)
          /\ IF e = KeyboardInterrupt
             THEN \* except KeyboardInterrupt: break; return input
                  IF ui_input.bound
                  THEN /\ ui_return' = ui_input.v
                       /\ ui_pc' = "done"
                       /\ UNCHANGED <<ui_input, ui_error>>
                  ELSE /\ ui_error' = UnboundLocalError("input")
                       /\ ui_pc' = "failed"
                       /\ UNCHANGED <<ui_input, ui_return>>
             ELSE LET typed == enter_for_default(e, ui_args.default)
                      conv == PyInt(typed)
                  IN  IF conv.status = "raised"
                      THEN \* input holds what was typed; except: print, loop
                           /\ ui_input' = Bound(typed)
                           /\ UNCHANGED <<ui_pc, ui_return, ui_error>>
                      ELSE IF conv.body.val < 0
                      THEN \* raise AssertionError; except: print, loop
                           /\ ui_input' = Bound(conv.body)
                           /\ UNCHANGED <<ui_pc, ui_return, ui_error>>
                      ELSE LET result == IF conv.body.val = 0
                                         THEN ui_args.zero_behavior
                                         ELSE conv.body
                           IN  /\ ui_input' = Bound(result)
                               /\ ui_return' = result
                               /\ ui_pc' = "done"
                               /\ UNCHANGED ui_error
    /\ UNCHANGED <<ui_fn, ui_args, ui_fs, ui_others>>

\* One pass of the while loop of ensure_not_blank: response = function
EnbIterate ==
    /\ ui_fn = "ensure_not_blank"
    /\ ui_pc = "loop"
    /\ ui_input' = Bound(ui_args.function)
    /\ IF ui_args.function # StrVal(<<>>)
       THEN ui_return' = ui_args.function /\ ui_pc' = "done"
       ELSE UNCHANGED <<ui_return, ui_pc>>
    /\ UNCHANGED <<ui_fn, ui_args, ui_fs, ui_entries, ui_error, ui_others>>

\* os.listdir(directory) and os.path.exists
DirExists(fs, directory) == ensure_file_slash(directory) \in fs.dirs
FileExists(fs, directory, filename) == ensure_file_slash(directory) \o filename \in fs.files

\* One pass of the while loop of ensure_file_exists.
EfeIterate ==
    /\ ui_fn = "ensure_file_exists"
    /\ ui_pc = "loop"
    /\ Len(ui_entries) < MaxPrompts
    /\ \E d \in {StrVal(<<>>), StrVal(<<"l">>), StrVal(<<"m", "/">>)}, f \in {<<>>, <<"g">>, <<"h">>} :
          LET directory == enter_for_default(d, ui_args.default).val
          IN  IF ~DirExists(ui_fs, directory)
              THEN \* os.listdir raises, outside any try
                   /\ ui_entries' = Append(ui_entries, [directory |-> d.val, filename |-> <<>>])
                   /\ ui_error' = FileNotFoundError
                   /\ ui_pc' = "failed"
                   /\ UNCHANGED <<ui_input, ui_return>>
              ELSE LET world == [local_dir_exists |-> TRUE,
                                 local_file_exists |-> FileExists(ui_fs, directory, f)]
                       filepath == check_if_file_exists(world, directory, f)
                   IN  /\ ui_entries' = Append(ui_entries, [directory |-> d.val, filename |-> f])
                       /\ ui_input' = Bound(filepath)
                       /\ IF Truthy(filepath)
                          THEN /\ ui_return' = <<f, directory, filepath.val>>
                               /\ ui_pc' = "done"
                          ELSE UNCHANGED <<ui_return, ui_pc>>
                       /\ UNCHANGED ui_error
    /\ UNCHANGED <<ui_fn, ui_args, ui_fs, ui_others>>

(* Inputs of the ensure_* functions *)
UiArgsOf(fn) ==
    CASE fn = "ensure_positive_int" ->
            {[NoUiArgs EXCEPT !.default = IntVal(10), !.zero_behavior = StrVal(<<"a", "l", "l">>)]}
      [] fn = "ensure_not_blank" ->
            {[NoUiArgs EXCEPT !.function = v] : v \in {StrVal(<<>>), StrVal(<<"x">>), FunctionVal}}
      [] fn = "ensure_file_exists" ->
            {[NoUiArgs EXCEPT !.default = StrVal(<<"l">>)]}
FileSystems ==
    {[dirs |-> {<<"l", "/">>}, files |-> {<<"l", "/", "g">>}],
     [dirs |-> {<<"l", "/">>, <<"m", "/">>}, files |-> {<<"m", "/", "g">>}],
     NoFiles}

UiInit ==
    /\ FtqIdle
    /\ AwsIdle
    /\ LpIdle
    /\ driver_call = NoDriverCall
    /\ QIdle
    /\ S3Idle
    /\ CteIdle
    /\ ui_fn \in {"ensure_positive_int", "ensure_not_blank", "ensure_file_exists"}
    /\ ui_args \in UiArgsOf(ui_fn)
    /\ ui_fs \in IF ui_fn = "ensure_file_exists" THEN FileSystems ELSE {NoFiles}
    /\ ui_pc = "loop"
    /\ ui_input = Unbound
    /\ ui_entries = <<>>
    /\ ui_return = NoneVal
    /\ ui_error = NoError

UiNext ==
    \/ EpiIterate
    \/ EnbIterate
    \/ EfeIterate

SpecInput == UiInit /\ [][UiNext]_vars

\* The loops run on as long as they can: no step is postponed for ever.
SpecInputFair == UiInit /\ [][UiNext]_vars /\ WF_vars(UiNext)

-----------------------------------------------------------------------------
(* Claims about check-and-ask-again functions *)

UiLastEntry == ui_entries[Len(ui_entries)]

\* C23: ensure_positive_int never fails with an error, and whenever it has
\* returned, the value is a positive integer, or zero_behavior when the
\* accepted entry was 0.
C23_ReturnsPositiveIntOrZeroBehavior ==
    ui_fn = "ensure_positive_int" =>
        /\ ui_pc # "failed"
        /\ ui_error = NoError
        /\ ui_pc = "done" =>
              \/ ui_return.kind = "int" /\ ui_return.val > 0
              \/ ui_return = ui_args.zero_behavior /\ UiLastEntry = StrVal(<<"0">>)

\* C24: a call of ensure_not_blank eventually returns a non-empty entry.
C24_NonBlankEntryEventuallyReturned ==
    (ui_fn = "ensure_not_blank")
        ~> (/\ ui_fn = "ensure_not_blank"
            /\ ui_pc = "done"
            /\ ui_return.kind = "str"
            /\ ui_return.val # <<>>)

\* C25: ensure_file_exists never ends in an error, whatever directory and
\* filename are entered, and when it has returned, the last entry names a
\* file that exists and the result is (filename, directory, directory with a
\* trailing "/" followed by filename).
C25_AsksAgainUntilFileExists ==
    ui_fn = "ensure_file_exists" =>
        /\ ui_pc # "failed"
        /\ ui_pc = "done" =>
              LET directory == IF UiLastEntry.directory = <<>>
                               THEN ui_args.default.val
                               ELSE UiLastEntry.directory
                  filename == UiLastEntry.filename
              IN  /\ FileExists(ui_fs, directory, filename)
                  /\ ui_return = <<filename, directory,
                                   ensure_file_slash(directory) \o filename>>

-----------------------------------------------------------------------------
(* Further claims about get_cluster_connection_details *)

BothDescribesFailed ==
    rds_response.status = "raised" /\ redshift_response.status = "raised"

\* C26: the secret lookup is made only after one of the two describe calls
\* has returned; when both describe calls have failed, whatever the error
\* code of the Redshift failure, no secret lookup is made and no descriptor
\* is returned.
C26_SecretLookupOnlyAfterDescribe ==
    /\ Called("secretsmanager.get_secret_value") =>
          (rds_response.status = "ok" \/ redshift_response.status = "ok")
    /\ BothDescribesFailed =>
          (~Called("secretsmanager.get_secret_value") /\ ~connection_details.built)

-----------------------------------------------------------------------------
(* Further claims about generic_sql_query *)

\* the clause, piece by piece, is a run of raw SQL pieces of the built query
ClauseVerbatim ==
    LET c == q_clause.val
    IN  \E i \in 0..(Len(q_return) - Len(c)) :
           \A k \in 1..Len(c) : q_return[i + k] = SQL(c[k])

\* C27: for every clause supplied to generic_sql_query, one that contains
\* braces or the text {schema}, {table} or {limit} included, the query is
\* built without error and the clause appears in it exactly as supplied.
C27_ClauseKeptVerbatim ==
    (q_kind = "generic_sql_query" /\ ClauseSupplied /\ q_pc # "call") =>
        (q_pc = "done" /\ q_error = NoError /\ ClauseVerbatim)


(* Further claims about find_table_to_query *)

\* C28 (as claimed): a name returned through the dated path starts with the
\* literal text of base_table_name followed by "_", for every base_table_name,
\* one with a regular-expression metacharacter included.
C28_ReturnedNameHasLiteralPrefix ==
    (ftq_pc = "done" /\ \E i \in 1..Len(ftq_steps) : ftq_steps[i] = "filter")
        => /\ ftq_return.kind = "str"
           /\ IsPrefix(base_table_name \o <<"_">>, ftq_return.val)


(* The LIMIT clause of generic_sql_query *)

LimitOmitted == q_limit.kind = "bool"
HasLimitClause == \E i \in QPieces : q_return[i].kind = "SQL" /\ q_return[i].v = "LIMIT "
EndsWithLimit ==
    /\ Len(q_return) >= 2
    /\ q_return[Len(q_return) - 1].kind = "SQL"
    /\ q_return[Len(q_return) - 1].v = "LIMIT "
    /\ q_return[Len(q_return)].kind = "Literal"
    /\ q_return[Len(q_return)].v = q_limit

\* C29 (as claimed): a query built by generic_sql_query ends with a LIMIT
\* clause bound to the literal value of limit for every integer limit, 0
\* included, and has no LIMIT clause exactly when limit is omitted.
C29_LimitClauseForEveryInteger ==
    (q_kind = "generic_sql_query" /\ q_pc = "done") =>
        /\ q_limit.kind = "int" => EndsWithLimit
        /\ ~HasLimitClause <=> LimitOmitted


(* Further claims about move_local_file_to_s3 *)

LocalFileMissing ==
    \/ s3_args.local_filename.val = <<>>
    \/ ~(s3_world.local_dir_exists /\ s3_world.local_file_exists)
\* the key the claim names: s3_path (with a trailing "/") followed by
\* s3_filename, local_filename standing in for an omitted s3_filename
MoveKey ==
    LET fname == IF s3_args.filename.kind = "str" /\ s3_args.filename.val # <<>>
                 THEN s3_args.filename.val
                 ELSE s3_args.local_filename.val
    IN  IF s3_args.path.kind = "str" /\ s3_args.path.val # <<>>
        THEN ensure_file_slash(s3_args.path.val) \o fname
        ELSE fname
UploadCompleted ==
    /\ S3Made("Bucket.upload_file")
    /\ s3_world.fault = "none"
    /\ s3_world.bucket_exists

====
